---- MODULE Spec2Model ----
(***************************************************************************)
(* AuroraLang v2 (src/aurora.js): the lexer's token classification, the    *)
(* recursive-descent parser, the tree-walking interpreter with its         *)
(* environment chain, and the module loader, as one state machine.  A      *)
(* state is one process with its Interpreter instance (environments, JS    *)
(* object heap, module cache) and what its last handler wrote; an action   *)
(* is one handler of the REPL (the ;; line, the .load line) or runFile.    *)
(***************************************************************************)
EXTENDS Integers, Sequences, FiniteSets, TLC

VARIABLES
  suite,        \* which family of source units this session draws its input from
  envs,         \* the Env objects: envs[1] is Interpreter.global
  heap,         \* JS objects reachable from Aurora values (arrays, records, closures, classes)
  moduleCache,  \* Interpreter.moduleCache: absolute path -> exported value
  ghost,        \* history: evaluations per module path, the scope each closure was built in
  out,          \* lines the last handler wrote with console.log
  err,          \* lines the last handler wrote with console.error (first line of each report)
  exitCode,     \* process.exitCode
  log,          \* trace of the last handler: one event per instrumented program point
  last,         \* the last handler, its source unit and how run(source, interp) ended
  runs          \* number of handlers run by this process

vars == <<suite, envs, heap, moduleCache, ghost, out, err, exitCode, log, last, runs>>

(***************************************************************************)
(* Bounds of the model.                                                    *)
(***************************************************************************)
MaxRuns == 2        \* source units submitted to one interpreter
MaxDepth == 3       \* nested JS calls before the host raises RangeError
MaxIter == 4        \* loop iterations followed before a run is given up as hanging

(***************************************************************************)
(* Values.  A JS value is a tagged record; containers and callables live   *)
(* in the heap and are referred to by index, so aliasing is visible.       *)
(***************************************************************************)
Null == [t |-> "null"]
Undefined == [t |-> "undefined"]
NaN == [t |-> "nan"]
Bool(b) == [t |-> "bool", b |-> b]
Num(n) == [t |-> "num", n |-> n]
Str(s) == [t |-> "str", s |-> s]
Ref(r) == [t |-> "ref", r |-> r]
Builtin(name) == [t |-> "builtin", name |-> name]
HostFn(name) == [t |-> "hostfn", name |-> name]

\* new Error(msg), with the isRuntime flag runtimeError sets
JsError(cls, msg, isRuntime) == [t |-> "error", cls |-> cls, message |-> msg, isRuntime |-> isRuntime]

\* class ReturnSignal { constructor(value){ this.value=value; } }
ReturnSignal(value) == [t |-> "ReturnSignal", value |-> value]

\* class BreakSignal / class ContinueSignal
BreakSignal == [t |-> "BreakSignal"]
ContinueSignal == [t |-> "ContinueSignal"]

(***************************************************************************)
(* Lexer.  A source unit is given as its sequence of lexemes (whitespace   *)
(* and comments already skipped); lex classifies each lexeme in the order  *)
(* Lexer.lex tests them: identifier or keyword, number, string, two-char   *)
(* operator, single-char token, otherwise a lex error.                     *)
(***************************************************************************)
keywords ==
  [s \in {"let", "const", "fun", "return", "if", "else", "while", "for", "true", "false",
          "null", "break", "continue", "class", "new", "try", "catch", "throw", "import",
          "export", "this"} |->
     CASE s = "let" -> "LET" [] s = "const" -> "CONST" [] s = "fun" -> "FUN"
       [] s = "return" -> "RETURN" [] s = "if" -> "IF" [] s = "else" -> "ELSE"
       [] s = "while" -> "WHILE" [] s = "for" -> "FOR" [] s = "true" -> "TRUE"
       [] s = "false" -> "FALSE" [] s = "null" -> "NULL" [] s = "break" -> "BREAK"
       [] s = "continue" -> "CONTINUE" [] s = "class" -> "CLASS" [] s = "new" -> "NEW"
       [] s = "try" -> "TRY" [] s = "catch" -> "CATCH" [] s = "throw" -> "THROW"
       [] s = "import" -> "IMPORT" [] s = "export" -> "EXPORT" [] s = "this" -> "THIS"]

\* the lexemes matching [A-Za-z_][A-Za-z0-9_]* that are not keywords
identLexemes ==
  {"a", "b", "c", "e", "f", "g", "i", "k", "m", "n", "o", "p", "r", "s", "v", "x", "y",
   "C", "D", "P", "bump", "get", "set", "inc", "mk", "init", "exports", "module",
   "from", "print", "len", "push", "pop", "require", "m1", "m2", "c1", "c2", "undef", "message",
   "hit", "tick", "and"}

\* Number(s) of the lexemes matching [0-9]+(\.[0-9]+)?
numberLexemes ==
  [s \in {"0", "1", "2", "3", "4", "5", "6", "7", "9", "42"} |->
     CASE s = "0" -> 0 [] s = "1" -> 1 [] s = "2" -> 2 [] s = "3" -> 3 [] s = "4" -> 4
       [] s = "5" -> 5 [] s = "6" -> 6 [] s = "7" -> 7 [] s = "9" -> 9 [] s = "42" -> 42]

\* the quoted lexemes and the text between their quotes
stringLexemes ==
  [s \in {"''", "'a'", "'boom'", "'./a.aur'", "'./b.aur'", "'./bad.aur'", "'./cyc.aur'",
          "'./missing.aur'", "'./ret.aur'", "\"./a.aur\"", "\"caught\"", "'0'",
          "'./ping.aur'", "'./pong.aur'", "'./half.aur'", "'./syn.aur'", "'./lexbad.aur'",
          "'./shadow.aur'"} |->
     CASE s = "''" -> "" [] s = "'a'" -> "a" [] s = "'boom'" -> "boom"
       [] s = "\"./a.aur\"" -> "./a.aur" [] s = "\"caught\"" -> "caught"
       [] s = "'./a.aur'" -> "./a.aur" [] s = "'./b.aur'" -> "./b.aur"
       [] s = "'./bad.aur'" -> "./bad.aur" [] s = "'./cyc.aur'" -> "./cyc.aur"
       [] s = "'./missing.aur'" -> "./missing.aur" [] s = "'./ret.aur'" -> "./ret.aur"
       [] s = "'0'" -> "0"
       [] s = "'./ping.aur'" -> "./ping.aur" [] s = "'./pong.aur'" -> "./pong.aur"
       [] s = "'./half.aur'" -> "./half.aur" [] s = "'./syn.aur'" -> "./syn.aur"
       [] s = "'./lexbad.aur'" -> "./lexbad.aur" [] s = "'./shadow.aur'" -> "./shadow.aur"]

\* keywords is a plain object literal: keywords[s] also finds what it inherits from
\* Object.prototype, a host function and not a tag string
objectPrototypeNames == {"constructor", "toString", "valueOf", "hasOwnProperty"}
hostFunctionTag == "function Object() { [native code] }"

twoCharOps == {"==", "!=", "<=", ">=", "&&", "||", "**"}
singles == {"(", ")", "{", "}", "[", "]", ",", ";", ":", ".", "+", "-", "*", "/", "%",
            "<", ">", "=", "!", "~", "?"}

Token(type, lexeme, literal) == [type |-> type, lexeme |-> lexeme, literal |-> literal]

lexable(s) ==
  \/ s \in DOMAIN keywords \/ s \in objectPrototypeNames
  \/ s \in identLexemes \/ s \in DOMAIN numberLexemes
  \/ s \in DOMAIN stringLexemes \/ s \in twoCharOps \/ s \in singles

lexOne(s) ==
  IF s \in DOMAIN keywords THEN Token(keywords[s], s, Str(s))
  ELSE IF s \in objectPrototypeNames THEN Token(hostFunctionTag, s, Str(s))
  ELSE IF s \in identLexemes THEN Token("IDENT", s, Str(s))
  ELSE IF s \in DOMAIN numberLexemes THEN Token("NUMBER", s, Num(numberLexemes[s]))
  ELSE IF s \in DOMAIN stringLexemes THEN Token("STRING", stringLexemes[s], Str(stringLexemes[s]))
  ELSE Token(s, s, Null)

\* Lexer.lexError: a SyntaxError that carries line and col but no token
lexError == JsError("SyntaxError", "Unexpected character", FALSE)

\* lex(source): the tokens followed by EOF, or the SyntaxError of lexError
lex(src) ==
  IF \E k \in 1..Len(src) : ~lexable(src[k])
  THEN [ok |-> FALSE, err |-> lexError]
  ELSE [ok |-> TRUE, toks |-> [k \in 1..Len(src) |-> lexOne(src[k])] \o <<Token("EOF", "", Null)>>]

(***************************************************************************)
(* Parser.  Every method takes the tokens and the position this.i and      *)
(* returns the node with the new position, or the SyntaxError thrown.      *)
(* An absent (null) child is NoNode; an absent name is "".                 *)
(***************************************************************************)
NoNode == [type |-> "null"]
POk(node, i) == [ok |-> TRUE, node |-> node, i |-> i]
parseError(msg, i) == [ok |-> FALSE, i |-> i, err |-> JsError("SyntaxError", msg, FALSE)]
consume(toks, i, type, msg) ==
  IF toks[i].type = type THEN [ok |-> TRUE, tok |-> toks[i], i |-> i + 1]
  ELSE parseError(msg \o " (got " \o toks[i].type \o ")", i)
\* this.match(type) used as a statement: a following token of that type is skipped
skipOpt(toks, i, type) == IF toks[i].type = type THEN i + 1 ELSE i

\* A method's result r followed by the rest of the method, K: an error thrown while
\* computing r leaves the method at once
Bind(r, K(_)) == IF r.ok THEN K(r) ELSE r

RECURSIVE declaration(_, _), declarationList(_, _, _, _), classDecl(_, _), methodList(_, _, _),
          functionParts(_, _, _, _), importStmt(_, _), varDecl(_, _), statement(_, _), tryStatement(_, _),
          throwStatement(_, _), block(_, _), finishBlock(_, _), ifStatement(_, _),
          whileStatement(_, _), forStatement(_, _), returnStatement(_, _), exprStmt(_, _),
          expression(_, _), assignment(_, _), binaryLoop(_, _, _), binaryFrom(_, _, _, _),
          binaryLevel(_, _, _), unary(_, _), call(_, _), callLoop(_, _), primary(_, _),
          exprList(_, _, _), propList(_, _, _), paramList(_, _, _, _)

PList(list, i) == [ok |-> TRUE, list |-> list, i |-> i]

\* do { params.push(this.consume('IDENT', msg).lexeme); } while (this.match(','));
paramList(toks, i, acc, msg) ==
  Bind(consume(toks, i, "IDENT", msg), LAMBDA c :
    IF toks[c.i].type = "," THEN paramList(toks, c.i + 1, Append(acc, c.tok.lexeme), msg)
    ELSE PList(Append(acc, c.tok.lexeme), c.i))

\* if (!this.check(')')) { do ... while (this.match(',')); }
parameters(toks, i, msg) ==
  IF toks[i].type = ")" THEN PList(<<>>, i) ELSE paramList(toks, i, <<>>, msg)

\* do { list.push(this.expression()); } while (this.match(','));
exprList(toks, i, acc) ==
  Bind(expression(toks, i), LAMBDA e :
    IF toks[e.i].type = "," THEN exprList(toks, e.i + 1, Append(acc, e.node))
    ELSE PList(Append(acc, e.node), e.i))

\* the entries of an object literal
propList(toks, i, acc) ==
  IF toks[i].type \notin {"IDENT", "STRING"} THEN parseError("Expected key in object literal", i)
  ELSE Bind(consume(toks, i + 1, ":", "Expected : after key"), LAMBDA c :
       Bind(expression(toks, c.i), LAMBDA v :
         IF toks[v.i].type = ","
         THEN propList(toks, v.i + 1, Append(acc, [key |-> toks[i].lexeme, value |-> v.node]))
         ELSE PList(Append(acc, [key |-> toks[i].lexeme, value |-> v.node]), v.i)))

\* while (!this.check(stop) ...) decls.push(this.declaration());
declarationList(toks, i, acc, stop) ==
  IF toks[i].type \in stop THEN PList(acc, i)
  ELSE Bind(declaration(toks, i), LAMBDA d : declarationList(toks, d.i, Append(acc, d.node), stop))

declaration(toks, i) ==
  CASE toks[i].type = "FUN" -> functionParts(toks, i + 1, "FunctionDecl", " after function name")
    [] toks[i].type \in {"LET", "CONST"} -> varDecl(toks, i)
    [] toks[i].type = "CLASS" -> classDecl(toks, i + 1)
    [] toks[i].type = "IMPORT" -> importStmt(toks, i + 1)
    [] OTHER -> statement(toks, i)

methodList(toks, i, acc) ==
  IF toks[i].type = "}" THEN PList(acc, i)
  ELSE Bind(consume(toks, i, "IDENT", "Expected method name"), LAMBDA n :
       Bind(consume(toks, n.i, "(", "Expected ( after method name"), LAMBDA c1 :
       Bind(parameters(toks, c1.i, "Expected parameter"), LAMBDA ps :
       Bind(consume(toks, ps.i, ")", "Expected ) after params"), LAMBDA c2 :
       Bind(block(toks, c2.i), LAMBDA b :
         methodList(toks, b.i,
           Append(acc, [name |-> n.tok.lexeme, params |-> ps.list, body |-> b.node])))))))

importStmt(toks, i) ==
  IF toks[i].type = "STRING"
  THEN POk([type |-> "Import", path |-> toks[i].lexeme], skipOpt(toks, i + 1, ";"))
  ELSE IF toks[i].type = "IDENT"
       THEN IF toks[i + 1].type = "FROM"
            THEN Bind(consume(toks, i + 2, "STRING", "Expected string after from"), LAMBDA f :
                   POk([type |-> "ImportNamed", local |-> toks[i].lexeme, path |-> f.tok.lexeme],
                       skipOpt(toks, f.i, ";")))
            ELSE parseError("Invalid import syntax", i + 1)
  ELSE parseError("Invalid import syntax", i)

classDecl(toks, i) ==
  Bind(consume(toks, i, "IDENT", "Expected class name"), LAMBDA n :
  Bind(consume(toks, n.i, "{", "Expected { after class name"), LAMBDA c1 :
  Bind(methodList(toks, c1.i, <<>>), LAMBDA ms :
  Bind(consume(toks, ms.i, "}", "Expected } after class body"), LAMBDA c2 :
    POk([type |-> "ClassDecl", name |-> n.tok.lexeme, methods |-> ms.list], c2.i)))))

\* functionDecl, and the anonymous-function branch of primary, which repeats it
functionParts(toks, i, type, after) ==
  LET named == toks[i].type # "(" /\ toks[i].type = "IDENT"
      decl == type = "FunctionDecl"
  IN Bind(consume(toks, IF named THEN i + 1 ELSE i, "(", "Expected (" \o after), LAMBDA c1 :
     Bind(parameters(toks, c1.i, IF decl THEN "Expected parameter name" ELSE "Expected parameter"),
          LAMBDA ps :
     Bind(consume(toks, ps.i, ")", IF decl THEN "Expected ) after parameters" ELSE "Expected )"),
          LAMBDA c2 :
     Bind(block(toks, c2.i), LAMBDA b :
       POk([type |-> type, name |-> IF named THEN toks[i].lexeme ELSE "", params |-> ps.list,
            body |-> b.node], b.i)))))

varDecl(toks, i) ==
  Bind(consume(toks, i + 1, "IDENT", "Expected variable name"), LAMBDA n :
  Bind(IF toks[n.i].type = "=" THEN expression(toks, n.i + 1) ELSE POk(NoNode, n.i), LAMBDA e :
    POk([type |-> "VarDecl", kind |-> toks[i].type, name |-> n.tok.lexeme, init |-> e.node],
        skipOpt(toks, e.i, ";"))))

statement(toks, i) ==
  CASE toks[i].type = "{" -> finishBlock(toks, i + 1)
    [] toks[i].type = "IF" -> ifStatement(toks, i + 1)
    [] toks[i].type = "WHILE" -> whileStatement(toks, i + 1)
    [] toks[i].type = "FOR" -> forStatement(toks, i + 1)
    [] toks[i].type = "RETURN" -> returnStatement(toks, i + 1)
    [] toks[i].type = "TRY" -> tryStatement(toks, i + 1)
    [] toks[i].type = "THROW" -> throwStatement(toks, i + 1)
    [] OTHER -> exprStmt(toks, i)

tryStatement(toks, i) ==
  Bind(block(toks, i), LAMBDA tb :
    IF toks[tb.i].type = "CATCH"
    THEN Bind(consume(toks, tb.i + 1, "(", "Expected ( after catch"), LAMBDA c1 :
         Bind(consume(toks, c1.i, "IDENT", "Expected catch parameter"), LAMBDA p :
         Bind(consume(toks, p.i, ")", "Expected ) after catch param"), LAMBDA c2 :
         Bind(block(toks, c2.i), LAMBDA cb :
           POk([type |-> "TryCatch", tryBlock |-> tb.node, catchParam |-> p.tok.lexeme,
                catchBlock |-> cb.node], cb.i)))))
    ELSE POk([type |-> "TryCatch", tryBlock |-> tb.node, catchParam |-> "",
              catchBlock |-> NoNode], tb.i))

throwStatement(toks, i) ==
  Bind(expression(toks, i), LAMBDA e :
    POk([type |-> "Throw", expr |-> e.node], skipOpt(toks, e.i, ";")))

block(toks, i) ==
  Bind(consume(toks, i, "{", "Expected { to start block"), LAMBDA c : finishBlock(toks, c.i))

finishBlock(toks, i) ==
  Bind(declarationList(toks, i, <<>>, {"}", "EOF"}), LAMBDA ds :
  Bind(consume(toks, ds.i, "}", "Expected } after block"), LAMBDA c :
    POk([type |-> "Block", body |-> ds.list], c.i)))

ifStatement(toks, i) ==
  Bind(consume(toks, i, "(", "Expected ( after if"), LAMBDA c1 :
  Bind(expression(toks, c1.i), LAMBDA t :
  Bind(consume(toks, t.i, ")", "Expected ) after condition"), LAMBDA c2 :
  Bind(statement(toks, c2.i), LAMBDA cons :
  Bind(IF toks[cons.i].type = "ELSE" THEN statement(toks, cons.i + 1) ELSE POk(NoNode, cons.i),
       LAMBDA alt :
    POk([type |-> "If", test |-> t.node, consequent |-> cons.node, alternate |-> alt.node],
        alt.i))))))

whileStatement(toks, i) ==
  Bind(consume(toks, i, "(", "Expected ( after while"), LAMBDA c1 :
  Bind(expression(toks, c1.i), LAMBDA t :
  Bind(consume(toks, t.i, ")", "Expected ) after condition"), LAMBDA c2 :
  Bind(statement(toks, c2.i), LAMBDA b :
    POk([type |-> "While", test |-> t.node, body |-> b.node], b.i)))))

forStatement(toks, i) ==
  Bind(consume(toks, i, "(", "Expected ( after for"), LAMBDA c1 :
  Bind(CASE toks[c1.i].type = ";" -> POk(NoNode, c1.i + 1)
         [] toks[c1.i].type \in {"LET", "CONST"} -> varDecl(toks, c1.i)
         [] OTHER -> exprStmt(toks, c1.i), LAMBDA init :
  Bind(IF toks[init.i].type # ";" THEN expression(toks, init.i) ELSE POk(NoNode, init.i),
       LAMBDA test :
  Bind(consume(toks, test.i, ";", "Expected ; after loop condition"), LAMBDA c2 :
  Bind(IF toks[c2.i].type # ")" THEN expression(toks, c2.i) ELSE POk(NoNode, c2.i),
       LAMBDA update :
  Bind(consume(toks, update.i, ")", "Expected ) after for clauses"), LAMBDA c3 :
  Bind(statement(toks, c3.i), LAMBDA b :
    POk([type |-> "For", init |-> init.node, test |-> test.node, update |-> update.node,
         body |-> b.node], b.i))))))))

returnStatement(toks, i) ==
  Bind(IF toks[i].type \notin {";", "}", "EOF"} THEN expression(toks, i) ELSE POk(NoNode, i),
       LAMBDA e :
    POk([type |-> "Return", argument |-> e.node], skipOpt(toks, e.i, ";")))

exprStmt(toks, i) ==
  Bind(expression(toks, i), LAMBDA e :
    POk([type |-> "ExprStmt", expression |-> e.node], skipOpt(toks, e.i, ";")))

expression(toks, i) == assignment(toks, i)

assignment(toks, i) ==
  Bind(binaryLevel(1, toks, i), LAMBDA left :
    IF toks[left.i].type # "=" THEN left
    ELSE Bind(assignment(toks, left.i + 1), LAMBDA value :
           POk([type |-> "Assign", target |-> left.node, value |-> value.node], value.i)))

\* The seven binary levels, outermost first.  Each method parses one operand with the
\* next method (power with unary) and then loops over its own operators.
levelOps ==
  <<{"||"}, {"&&"}, {"==", "!="}, {">", ">=", "<", "<="}, {"+", "-"}, {"*", "/", "%"}, {"**"}>>
Power == 7

\* while (this.match(...ops)) { const right = operand(); expr = { type, op, left: expr, right }; }
\* for the method of the given level, left being what it has parsed so far
binaryLoop(level, toks, left) ==
  CASE ~left.ok -> left
    [] toks[left.i].type \notin levelOps[level] -> left
    [] OTHER ->
         binaryLoop(level, toks,
           Bind(binaryLevel(level + 1, toks, left.i + 1), LAMBDA right :
             POk([type |-> IF level <= 2 THEN "Logical" ELSE "Binary", op |-> toks[left.i].type,
                  left |-> left.node, right |-> right.node], right.i)))

\* the loops of the levels from level out to lowest, applied in turn to the operand left
binaryFrom(level, lowest, toks, left) ==
  IF level < lowest THEN left
  ELSE binaryFrom(level - 1, lowest, toks, binaryLoop(level, toks, left))

\* The method of the given level at position i.  Its first operand is the first operand of
\* every level below it, so all of them start with the same unary(); the loops are applied
\* to that operand from power outwards, which is the tree the nested calls build.  The
\* level after power is unary() itself.
binaryLevel(level, toks, i) == binaryFrom(Power, level, toks, unary(toks, i))

logicOr(toks, i) == binaryLevel(1, toks, i)
logicAnd(toks, i) == binaryLevel(2, toks, i)
equality(toks, i) == binaryLevel(3, toks, i)
comparison(toks, i) == binaryLevel(4, toks, i)
term(toks, i) == binaryLevel(5, toks, i)
factor(toks, i) == binaryLevel(6, toks, i)
power(toks, i) == binaryLevel(7, toks, i)

unary(toks, i) ==
  IF toks[i].type \in {"!", "-"}
  THEN Bind(unary(toks, i + 1), LAMBDA right :
         POk([type |-> "Unary", op |-> toks[i].type, right |-> right.node], right.i))
  ELSE Bind(call(toks, IF toks[i].type = "NEW" THEN i + 1 ELSE i), LAMBDA callee :
         IF toks[i].type = "NEW" THEN POk([type |-> "New", callee |-> callee.node], callee.i)
         ELSE callee)

call(toks, i) == callLoop(toks, primary(toks, i))

\* while (true) { if (this.match('(')) ... else if (this.match('[')) ... else if (this.match('.')) ... else break; }
callLoop(toks, e) ==
  CASE ~e.ok -> e
    [] toks[e.i].type = "(" ->
         callLoop(toks,
           Bind(IF toks[e.i + 1].type = ")" THEN PList(<<>>, e.i + 1)
                ELSE exprList(toks, e.i + 1, <<>>), LAMBDA args :
           Bind(consume(toks, args.i, ")", "Expected ) after arguments"), LAMBDA c :
             POk([type |-> "Call", callee |-> e.node, args |-> args.list], c.i))))
    [] toks[e.i].type = "[" ->
         callLoop(toks,
           Bind(expression(toks, e.i + 1), LAMBDA index :
           Bind(consume(toks, index.i, "]", "Expected ] after index"), LAMBDA c :
             POk([type |-> "Index", object |-> e.node, index |-> index.node], c.i))))
    [] toks[e.i].type = "." ->
         callLoop(toks,
           Bind(consume(toks, e.i + 1, "IDENT", "Expected property name after ."), LAMBDA n :
             POk([type |-> "Property", object |-> e.node, name |-> n.tok.lexeme], n.i)))
    [] OTHER -> e

primary(toks, i) ==
  CASE toks[i].type \in {"NUMBER", "STRING"} -> POk([type |-> "Literal", value |-> toks[i].literal], i + 1)
    [] toks[i].type = "TRUE" -> POk([type |-> "Literal", value |-> Bool(TRUE)], i + 1)
    [] toks[i].type = "FALSE" -> POk([type |-> "Literal", value |-> Bool(FALSE)], i + 1)
    [] toks[i].type = "NULL" -> POk([type |-> "Literal", value |-> Null], i + 1)
    [] toks[i].type = "THIS" -> POk([type |-> "This"], i + 1)
    [] toks[i].type = "IDENT" -> POk([type |-> "Identifier", name |-> toks[i].lexeme], i + 1)
    [] toks[i].type = "(" ->
         Bind(expression(toks, i + 1), LAMBDA e :
         Bind(consume(toks, e.i, ")", "Expected )"), LAMBDA c : POk(e.node, c.i)))
    [] toks[i].type = "[" ->
         Bind(IF toks[i + 1].type = "]" THEN PList(<<>>, i + 1) ELSE exprList(toks, i + 1, <<>>),
              LAMBDA es :
         Bind(consume(toks, es.i, "]", "Expected ] after array"), LAMBDA c :
           POk([type |-> "Array", elements |-> es.list], c.i)))
    [] toks[i].type = "{" ->
         Bind(IF toks[i + 1].type = "}" THEN PList(<<>>, i + 1) ELSE propList(toks, i + 1, <<>>),
              LAMBDA ps :
         Bind(consume(toks, ps.i, "}", "Expected } after object"), LAMBDA c :
           POk([type |-> "Object", props |-> ps.list], c.i)))
    [] toks[i].type = "FUN" -> functionParts(toks, i + 1, "FunctionExpr", "")
    [] OTHER -> parseError("Unexpected token: " \o toks[i].type, i)

parseProgram(toks) ==
  Bind(declarationList(toks, 1, <<>>, {"EOF"}), LAMBDA ds :
    POk([type |-> "Program", body |-> ds.list], ds.i))

(***************************************************************************)
(* Interpreter state threaded through evaluation, and evaluation results.  *)
(* A result is a value ("ok"), a JS exception in flight ("throw"), or a    *)
(* run the model stops following: "hang" (a loop past MaxIter) and         *)
(* "unmodelled" (host behaviour the model does not compute).               *)
(***************************************************************************)
Ok(v, st) == [k |-> "ok", v |-> v, st |-> st]
Throw(e, st) == [k |-> "throw", v |-> e, st |-> st]
Hang(st) == [k |-> "hang", v |-> Undefined, st |-> st]
Unmodelled(st) == [k |-> "unmodelled", v |-> Undefined, st |-> st]

\* const x = <a computation>; <the rest of the method>
With(x, K(_)) == K(x)

\* A step's result r followed by the rest of the method, K: a step that does not complete
\* normally leaves the method at once
AndThen(r, K(_)) == IF r.k = "ok" THEN K(r) ELSE r

Logged(st, event) == [st EXCEPT !.log = Append(@, event)]

\* function runtimeError(msg): new Error('RuntimeError: ' + msg) with isRuntime = true
runtimeError(msg) == JsError("Error", "RuntimeError: " \o msg, TRUE)

\* the host's RangeError when the JS call stack is exhausted
stackOverflow == JsError("RangeError", "Maximum call stack size exceeded", FALSE)
typeError(msg) == JsError("TypeError", msg, FALSE)

Alloc(st, obj) == [st EXCEPT !.heap = Append(@, obj)]
NewRef(st) == Ref(Len(st.heap) + 1)

\* nesting that String(v) and repr(v) follow: deeper than any acyclic value of this heap
Fuel(st) == Len(st.heap) + 2

Digits == <<"0", "1", "2", "3", "4", "5", "6", "7", "8", "9">>
RECURSIVE natToString(_)
natToString(n) == IF n < 10 THEN Digits[n + 1] ELSE natToString(n \div 10) \o Digits[(n % 10) + 1]
numToString(n) == IF n < 0 THEN "-" \o natToString(-n) ELSE natToString(n)

\* typeof v
typeof(v) ==
  CASE v.t = "undefined" -> "undefined"
    [] v.t = "bool" -> "boolean"
    [] v.t \in {"num", "nan", "numx"} -> "number"
    [] v.t = "str" -> "string"
    [] v.t \in {"hostfn", "jsfn"} -> "function"
    [] OTHER -> "object"

isArray(st, v) == v.t = "ref" /\ st.heap[v.r].k = "array"
isKind(st, v, kind) == v.t = "ref" /\ st.heap[v.r].k = kind

\* function truthy(v){ return !!v; }
truthy(v) ==
  CASE v.t \in {"null", "undefined", "nan"} -> FALSE
    [] v.t = "bool" -> v.b
    [] v.t = "num" -> v.n # 0
    [] v.t = "str" -> v.s # ""
    [] OTHER -> TRUE

(***************************************************************************)
(* class Env                                                               *)
(***************************************************************************)
\* new Env(parent): the state with the Env added; its index is Len(envs) + 1 before.
\* names lists the keys of this.map in insertion order, as Object.keys reports them
Env_new(st, parent) ==
  [st EXCEPT !.envs = Append(@, [map |-> <<>>, names |-> <<>>, consts |-> {}, parent |-> parent])]

\* a define that replaces whatever the scope already holds under the name
Env_defineOverwrites(st, env, name, value, isConst) ==
  Ok(Undefined,
     [st EXCEPT !.envs[env].map = (name :> value) @@ @,
                !.envs[env].names = Append(@, name),
                !.envs[env].consts = IF isConst THEN @ \cup {name} ELSE @])

Env_define(st, env, name, value, isConst) ==
  IF name \in DOMAIN st.envs[env].map
  THEN Throw(runtimeError("Variable already declared: " \o name), st)
  ELSE Ok(Undefined,
          [st EXCEPT !.envs[env].map = @ @@ (name :> value),
                     !.envs[env].names = Append(@, name),
                     !.envs[env].consts = IF isConst THEN @ \cup {name} ELSE @])

\* an assign that writes the nearest binding whether or not the scope marks it const
RECURSIVE Env_assignAnyBinding(_, _, _, _)
Env_assignAnyBinding(st, env, name, value) ==
  IF name \in DOMAIN st.envs[env].map
  THEN Ok(Undefined, [st EXCEPT !.envs[env].map[name] = value])
  ELSE IF st.envs[env].parent # 0 THEN Env_assignAnyBinding(st, st.envs[env].parent, name, value)
  ELSE Throw(runtimeError("Undefined variable " \o name), st)

RECURSIVE Env_assign(_, _, _, _)
Env_assign(st, env, name, value) ==
  IF name \in DOMAIN st.envs[env].map
  THEN IF name \in st.envs[env].consts
       THEN Throw(runtimeError("Cannot reassign const " \o name), st)
       ELSE Ok(Undefined, [st EXCEPT !.envs[env].map[name] = value])
  ELSE IF st.envs[env].parent # 0 THEN Env_assign(st, st.envs[env].parent, name, value)
  ELSE Throw(runtimeError("Undefined variable " \o name), st)

RECURSIVE Env_get(_, _, _)
Env_get(st, env, name) ==
  IF name \in DOMAIN st.envs[env].map THEN Ok(st.envs[env].map[name], st)
  ELSE IF st.envs[env].parent # 0 THEN Env_get(st, st.envs[env].parent, name)
  ELSE Throw(runtimeError("Undefined variable " \o name), st)

\* a call of define by the interpreter, traced with the environments before and after it
define(st, env, name, value, isConst) ==
  With(Env_define(st, env, name, value, isConst), LAMBDA d :
    [d EXCEPT !.st = Logged(@, [e |-> "define", env |-> env, name |-> name, value |-> value,
                                isConst |-> isConst, k |-> d.k, thrown |-> d.v,
                                before |-> st.envs, after |-> d.st.envs])])

\* a call of assign by the interpreter, traced with the environments before and after it
assignName(st, env, name, value) ==
  With(Env_assign(st, env, name, value), LAMBDA a :
    [a EXCEPT !.st = Logged(@, [e |-> "assign", env |-> env, name |-> name, value |-> value,
                                k |-> a.k, thrown |-> a.v,
                                before |-> st.envs, after |-> a.st.envs])])

(***************************************************************************)
(* Host (JavaScript) semantics the interpreter passes values through.      *)
(***************************************************************************)
RECURSIVE joinStrings(_, _)
joinStrings(strs, sep) ==
  IF strs = <<>> THEN ""
  ELSE IF Len(strs) = 1 THEN strs[1]
  ELSE strs[1] \o sep \o joinStrings(Tail(strs), sep)

\* String(f) of a JS function is its source text; one text stands for all of them
hostFunctionText == "function () { [native code] }"

\* String(v); fuel bounds the nesting followed
RECURSIVE jsString(_, _, _)
jsString(st, v, fuel) ==
  CASE v.t = "null" -> "null"
    [] v.t = "undefined" -> "undefined"
    [] v.t = "nan" -> "NaN"
    [] v.t = "numx" -> "<number>"
    [] v.t = "bool" -> IF v.b THEN "true" ELSE "false"
    [] v.t = "num" -> numToString(v.n)
    [] v.t = "str" -> v.s
    [] v.t = "hostfn" -> hostFunctionText
    [] v.t = "builtin" -> IF v.name = "print" THEN "<builtin print>" ELSE "[object Object]"
    [] v.t = "error" -> v.cls \o ": " \o v.message
    [] v.t = "ReturnSignal" -> "[object Object]"
    [] v.t = "ref" ->
         LET o == st.heap[v.r]
         IN (CASE o.k = "array" ->
                   IF fuel = 0 THEN ""
                   ELSE joinStrings([j \in 1..Len(o.elems) |->
                          IF o.elems[j].t \in {"null", "undefined"} THEN ""
                          ELSE jsString(st, o.elems[j], fuel - 1)], ",")
              [] o.k = "AuroraFunction" -> "<fun " \o (IF o.name = "" THEN "<anon>" ELSE o.name) \o ">"
              [] o.k = "AuroraClass" -> "<class " \o o.name \o ">"
              [] o.k = "method" -> "<method " \o o.name \o ">"
              [] OTHER -> "[object Object]")
    [] OTHER -> "[object Object]"

\* function repr(v)
RECURSIVE repr(_, _, _)
repr(st, v, fuel) ==
  CASE v.t = "null" -> "null"
    [] v.t = "str" -> "\"" \o v.s \o "\""
    [] v.t = "builtin" ->
         IF v.name = "print" THEN "{call: " \o hostFunctionText \o ", toString: " \o hostFunctionText \o "}"
         ELSE "{call: " \o hostFunctionText \o "}"
    [] v.t = "error" -> IF v.isRuntime THEN "{isRuntime: true}" ELSE "{}"
    [] v.t = "ReturnSignal" -> "{value: " \o (IF fuel = 0 THEN "" ELSE repr(st, v.value, fuel - 1)) \o "}"
    [] v.t = "ref" ->
         LET o == st.heap[v.r]
         IN (CASE o.k \in {"AuroraFunction", "AuroraClass"} -> jsString(st, v, fuel)
              [] o.k = "array" ->
                   "[" \o (IF fuel = 0 THEN ""
                           ELSE joinStrings([j \in 1..Len(o.elems) |-> repr(st, o.elems[j], fuel - 1)], ", "))
                       \o "]"
              [] o.k = "record" ->
                   "{" \o (IF fuel = 0 THEN ""
                           ELSE joinStrings([j \in 1..Len(o.keys) |->
                                  o.keys[j] \o ": " \o repr(st, o.vals[o.keys[j]], fuel - 1)], ", "))
                       \o "}"
              [] OTHER -> "{call: " \o hostFunctionText \o ", toString: " \o hostFunctionText \o "}")
    [] OTHER -> jsString(st, v, fuel)

\* function jstype(v)
jstype(st, v) == IF v.t = "null" THEN "null" ELSE IF isArray(st, v) THEN "array" ELSE typeof(v)

\* Parts of the interpreter's own objects that eq reaches through Object.keys:
\* an Env, its map, its consts Set, plain data (AST nodes, parameter lists), JS functions
EnvObject(id) == [t |-> "env", id |-> id]
EnvMap(id) == [t |-> "envmap", id |-> id]
SetObject == [t |-> "set"]
Data(d) == [t |-> "data", d |-> d]
MethodFunction(r, key) == [t |-> "jsfn", ref |-> r, key |-> key]
BuiltinFunction(name, key) == [t |-> "jsfn", name |-> name, key |-> key]

\* Object.keys(v) for v && typeof v === 'object'
objectKeys(st, v) ==
  CASE v.t = "ref" ->
         LET o == st.heap[v.r]
         IN (CASE o.k = "array" -> [j \in 1..Len(o.elems) |-> numToString(j - 1)]
              [] o.k = "record" -> o.keys
              [] o.k = "AuroraFunction" -> <<"name", "params", "body", "closure", "isMethod">>
              [] o.k = "AuroraClass" -> <<"name", "methods", "closure">>
              [] o.k = "method" -> <<"call", "toString">>)
    [] v.t = "builtin" -> IF v.name = "print" THEN <<"call", "toString">> ELSE <<"call">>
    [] v.t = "error" -> IF v.isRuntime THEN <<"isRuntime">> ELSE <<>>
    [] v.t = "ReturnSignal" -> <<"value">>
    [] v.t = "env" -> <<"map", "consts", "parent">>
    [] v.t = "envmap" -> st.envs[v.id].names
    [] OTHER -> <<>>

\* v[key] for an own key of an array or a plain object, undefined otherwise
ownValue(o, key) ==
  IF o.k = "array"
  THEN IF \E j \in 1..Len(o.elems) : numToString(j - 1) = key
       THEN o.elems[CHOOSE j \in 1..Len(o.elems) : numToString(j - 1) = key]
       ELSE Undefined
  ELSE IF key \in DOMAIN o.vals THEN o.vals[key] ELSE Undefined

\* v[key] as eq reads it, for any object eq can reach
fieldValue(st, v, key) ==
  CASE v.t = "ref" /\ st.heap[v.r].k \in {"array", "record"} -> ownValue(st.heap[v.r], key)
    [] v.t = "ref" /\ st.heap[v.r].k \in {"AuroraFunction", "AuroraClass"} ->
         LET o == st.heap[v.r]
         IN (CASE key = "name" -> IF o.name = "" THEN Null ELSE Str(o.name)
              [] key = "params" /\ o.k = "AuroraFunction" -> Data(o.params)
              [] key = "body" /\ o.k = "AuroraFunction" -> Data(o.body)
              [] key = "isMethod" /\ o.k = "AuroraFunction" -> Bool(o.isMethod)
              [] key = "methods" /\ o.k = "AuroraClass" -> Data(o.methods)
              [] key = "closure" -> EnvObject(o.closure)
              [] OTHER -> Undefined)
    [] v.t = "ref" /\ st.heap[v.r].k = "method" ->
         IF key \in {"call", "toString"} THEN MethodFunction(v.r, key) ELSE Undefined
    [] v.t = "builtin" ->
         IF key = "call" \/ (key = "toString" /\ v.name = "print") THEN BuiltinFunction(v.name, key)
         ELSE Undefined
    [] v.t = "error" -> IF key = "isRuntime" /\ v.isRuntime THEN Bool(TRUE) ELSE Undefined
    [] v.t = "ReturnSignal" -> IF key = "value" THEN v.value ELSE Undefined
    [] v.t = "env" ->
         (CASE key = "map" -> EnvMap(v.id)
           [] key = "consts" -> SetObject
           [] key = "parent" -> IF st.envs[v.id].parent = 0 THEN Null ELSE EnvObject(st.envs[v.id].parent)
           [] OTHER -> Undefined)
    [] v.t = "envmap" -> IF key \in DOMAIN st.envs[v.id].map THEN st.envs[v.id].map[key] ELSE Undefined
    [] OTHER -> Undefined

\* a === b
strictEquals(a, b) == a.t # "nan" /\ a = b

\* function eq(a,b): "true" or "false"; "overflow" when the recursion never ends (the pair
\* being compared is already being compared further up the stack, so the host raises
\* RangeError); "unmodelled" for opaque host objects.  path is the set of pairs in progress.
RECURSIVE eq(_, _, _, _), eqAll(_, _, _, _, _, _)
eq(st, a, b, path) ==
  IF typeof(a) # typeof(b) THEN "false"
  ELSE IF isArray(st, a) /\ isArray(st, b)
  THEN IF <<a, b>> \in path THEN "overflow"
       ELSE IF Len(st.heap[a.r].elems) # Len(st.heap[b.r].elems) THEN "false"
       ELSE eqAll(st, a, b, objectKeys(st, a), 1, path \cup {<<a, b>>})
  ELSE IF truthy(a) /\ typeof(a) = "object" /\ truthy(b) /\ typeof(b) = "object"
  THEN IF a.t \in {"host", "unmodelled"} \/ b.t \in {"host", "unmodelled"} THEN "unmodelled"
       ELSE IF a.t = "data" \/ b.t = "data"
            THEN IF a.t # b.t THEN "unmodelled" ELSE IF a.d = b.d THEN "true" ELSE "false"
       ELSE IF <<a, b>> \in path THEN "overflow"
       ELSE IF Len(objectKeys(st, a)) # Len(objectKeys(st, b)) THEN "false"
       ELSE eqAll(st, a, b, objectKeys(st, a), 1, path \cup {<<a, b>>})
  ELSE IF strictEquals(a, b) THEN "true" ELSE "false"

\* for (const k of ka) if (!eq(a[k], b[k])) return false; return true;
eqAll(st, a, b, ka, j, path) ==
  IF j > Len(ka) THEN "true"
  ELSE LET r == eq(st, fieldValue(st, a, ka[j]), fieldValue(st, b, ka[j]), path)
       IN IF r = "true" THEN eqAll(st, a, b, ka, j + 1, path) ELSE r

\* obj[key] where obj is not null or undefined
jsGet(st, obj, key) ==
  CASE obj.t = "ref" /\ st.heap[obj.r].k = "array" ->
         IF key = "length" THEN Num(Len(st.heap[obj.r].elems))
         ELSE IF key \in objectPrototypeNames \cup {"push", "pop", "join"} THEN HostFn(key)
         ELSE ownValue(st.heap[obj.r], key)
    [] obj.t = "ref" /\ st.heap[obj.r].k = "record" ->
         IF key \in DOMAIN st.heap[obj.r].vals THEN st.heap[obj.r].vals[key]
         ELSE IF key \in objectPrototypeNames THEN HostFn(key)
         ELSE Undefined
    [] obj.t = "error" ->
         IF key = "message" THEN Str(obj.message)
         ELSE IF key = "name" THEN Str(obj.cls)
         ELSE IF key = "isRuntime" /\ obj.isRuntime THEN Bool(TRUE)
         ELSE IF key \in objectPrototypeNames THEN HostFn(key)
         ELSE Undefined
    [] obj.t = "ReturnSignal" ->
         IF key = "value" THEN obj.value
         ELSE IF key \in objectPrototypeNames THEN HostFn(key)
         ELSE Undefined
    [] obj.t = "builtin" ->
         IF key = "call" \/ (key = "toString" /\ obj.name = "print") \/ key \in objectPrototypeNames
         THEN HostFn(key) ELSE Undefined
    [] obj.t = "ref" /\ st.heap[obj.r].k = "method" ->
         IF key \in {"call", "toString"} \cup objectPrototypeNames THEN HostFn(key) ELSE Undefined
    [] obj.t = "ref" /\ st.heap[obj.r].k = "AuroraFunction" ->
         IF key = "name" THEN (IF st.heap[obj.r].name = "" THEN Null ELSE Str(st.heap[obj.r].name))
         ELSE IF key = "isMethod" THEN Bool(st.heap[obj.r].isMethod)
         ELSE IF key \in {"call", "toString"} \cup objectPrototypeNames THEN HostFn(key)
         ELSE IF key \in {"params", "body", "closure"} THEN [t |-> "host", what |-> key]
         ELSE Undefined
    [] obj.t = "ref" /\ st.heap[obj.r].k = "AuroraClass" ->
         IF key = "name" THEN Str(st.heap[obj.r].name)
         ELSE IF key \in {"construct", "toString"} \cup objectPrototypeNames THEN HostFn(key)
         ELSE IF key \in {"methods", "closure"} THEN [t |-> "host", what |-> key]
         ELSE Undefined
    [] obj.t = "str" ->
         IF key = "length" THEN Num(Len(obj.s))
         ELSE IF key \in objectPrototypeNames THEN HostFn(key)
         ELSE Undefined
    [] obj.t = "hostfn" -> IF key \in {"call"} \cup objectPrototypeNames THEN HostFn(key) ELSE Undefined
    [] OTHER -> IF key \in objectPrototypeNames THEN HostFn(key) ELSE Undefined

\* obj[key] = val where obj is an array or a plain object; arrays grow by one at most
canSet(st, obj, key) ==
  /\ obj.t = "ref"
  /\ \/ st.heap[obj.r].k = "record"
     \/ /\ st.heap[obj.r].k = "array"
        /\ \E j \in 1..(Len(st.heap[obj.r].elems) + 1) : numToString(j - 1) = key

jsSet(st, obj, key, val) ==
  LET o == st.heap[obj.r]
  IN IF o.k = "array"
     THEN LET j == CHOOSE j \in 1..(Len(o.elems) + 1) : numToString(j - 1) = key
          IN IF j > Len(o.elems) THEN [st EXCEPT !.heap[obj.r].elems = Append(@, val)]
             ELSE [st EXCEPT !.heap[obj.r].elems[j] = val]
     ELSE IF key \in DOMAIN o.vals THEN [st EXCEPT !.heap[obj.r].vals[key] = val]
     ELSE [st EXCEPT !.heap[obj.r].keys = Append(@, key), !.heap[obj.r].vals = @ @@ (key :> val)]

\* a value the model does not compute (a fraction, an infinity, a host conversion)
NotComputed == [t |-> "unmodelled"]

\* Number(v)
toNumber(v) ==
  CASE v.t = "null" -> Num(0)
    [] v.t = "undefined" -> NaN
    [] v.t = "bool" -> Num(IF v.b THEN 1 ELSE 0)
    [] v.t \in {"num", "nan"} -> v
    [] v.t = "str" -> IF v.s = "" THEN Num(0)
                      ELSE IF v.s \in DOMAIN numberLexemes THEN Num(numberLexemes[v.s])
                      ELSE IF v.s \in identLexemes THEN NaN
                      ELSE NotComputed
    [] OTHER -> NotComputed

absInt(n) == IF n < 0 THEN -n ELSE n
RECURSIVE ipow(_, _)
ipow(b, e) == IF e = 0 THEN 1 ELSE b * ipow(b, e - 1)

\* l op r on two numbers of the host
arith(op, x, y) ==
  IF x.t = "unmodelled" \/ y.t = "unmodelled" THEN NotComputed
  ELSE IF x.t = "nan" \/ y.t = "nan" THEN NaN
  ELSE CASE op = "+" -> Num(x.n + y.n)
         [] op = "-" -> Num(x.n - y.n)
         [] op = "*" -> Num(x.n * y.n)
         [] op = "/" -> IF y.n = 0 THEN (IF x.n = 0 THEN NaN ELSE NotComputed)
                        ELSE IF absInt(x.n) % absInt(y.n) # 0 THEN NotComputed
                        ELSE Num((IF (x.n < 0) = (y.n < 0) THEN 1 ELSE -1) * (absInt(x.n) \div absInt(y.n)))
         [] op = "%" -> IF y.n = 0 THEN NaN
                        ELSE Num((IF x.n < 0 THEN -1 ELSE 1) * (absInt(x.n) % absInt(y.n)))
         [] op = "**" -> IF y.n >= 0 THEN Num(ipow(x.n, y.n)) ELSE NotComputed

compare(op, x, y) ==
  IF x.t = "unmodelled" \/ y.t = "unmodelled" THEN NotComputed
  ELSE IF x.t = "nan" \/ y.t = "nan" THEN Bool(FALSE)
  ELSE CASE op = ">" -> Bool(x.n > y.n)
         [] op = ">=" -> Bool(x.n >= y.n)
         [] op = "<" -> Bool(x.n < y.n)
         [] op = "<=" -> Bool(x.n <= y.n)

\* + concatenates when an operand is a string or an object (which converts to a string)
concatenates(v) == v.t \notin {"null", "undefined", "bool", "num", "nan", "numx"}

\* the host's l op r for the arithmetic and comparison operators of case 'Binary'
jsBinary(st, op, l, r) ==
  IF op = "+"
  THEN IF l.t = "numx" \/ r.t = "numx" THEN NotComputed
       ELSE IF concatenates(l) \/ concatenates(r)
            THEN Str(jsString(st, l, Fuel(st)) \o jsString(st, r, Fuel(st)))
       ELSE arith(op, toNumber(l), toNumber(r))
  ELSE IF l.t = "numx" \/ r.t = "numx" THEN NotComputed
  ELSE IF op \in {"-", "*", "/", "%", "**"} THEN arith(op, toNumber(l), toNumber(r))
  ELSE IF l.t = "str" /\ r.t = "str"
       THEN IF l.s = r.s THEN Bool(op \in {">=", "<="}) ELSE NotComputed
  ELSE compare(op, toNumber(l), toNumber(r))

(***************************************************************************)
(* The file system and the host module resolver seen by requireModule.     *)
(***************************************************************************)
\* path.resolve(process.cwd(), spec) for the specifiers starting with ./ , / or ../
resolve ==
  [spec \in {"./a.aur", "./b.aur", "./bad.aur", "./cyc.aur", "./missing.aur", "./ret.aur",
             "./ping.aur", "./pong.aur", "./half.aur", "./syn.aur", "./lexbad.aur",
             "./shadow.aur"} |->
     CASE spec = "./a.aur" -> "/w/a.aur"
       [] spec = "./b.aur" -> "/w/b.aur"
       [] spec = "./bad.aur" -> "/w/bad.aur"
       [] spec = "./cyc.aur" -> "/w/cyc.aur"
       [] spec = "./missing.aur" -> "/w/missing.aur"
       [] spec = "./ret.aur" -> "/w/ret.aur"
       [] spec = "./ping.aur" -> "/w/ping.aur"
       [] spec = "./pong.aur" -> "/w/pong.aur"
       [] spec = "./half.aur" -> "/w/half.aur"
       [] spec = "./syn.aur" -> "/w/syn.aur"
       [] spec = "./lexbad.aur" -> "/w/lexbad.aur"
       [] spec = "./shadow.aur" -> "/w/shadow.aur"]

\* the .aur files on disk: absolute path -> lexemes of the file
files ==
  [abs \in {"/w/a.aur", "/w/b.aur", "/w/bad.aur", "/w/cyc.aur", "/w/ret.aur", "/w/main.aur",
            "/w/top.aur", "/w/twice.aur", "/w/ping.aur", "/w/pong.aur",
            "/w/half.aur", "/w/syn.aur", "/w/lexbad.aur", "/w/shadow.aur"} |->
     CASE abs = "/w/a.aur" ->
            <<"let", "n", "=", "0", ";",
              "fun", "bump", "(", ")", "{", "n", "=", "n", "+", "1", ";", "return", "n", ";", "}",
              "module", ".", "exports", "=", "{", "bump", ":", "bump", "}", ";">>
       [] abs = "/w/b.aur" ->
            <<"exports", ".", "x", "=", "1", ";">>
       [] abs = "/w/bad.aur" ->
            <<"exports", ".", "x", "=", "1", ";", "undef", ";">>
       [] abs = "/w/cyc.aur" ->
            <<"exports", ".", "x", "=", "1", ";",
              "exports", ".", "y", "=", "require", "(", "'./cyc.aur'", ")", ";">>
       [] abs = "/w/ret.aur" ->
            <<"exports", ".", "x", "=", "1", ";", "return", "2", ";">>
       [] abs = "/w/top.aur" ->
            <<"print", "(", "1", ")", ";", "return", "2", ";", "print", "(", "3", ")", ";">>
       [] abs = "/w/twice.aur" ->
            <<"let", "n", "=", "1", ";", "print", "(", "n", "+", "1", ")", ";">>
       [] abs = "/w/ping.aur" ->
            <<"exports", ".", "x", "=", "1", ";",
              "exports", ".", "y", "=", "require", "(", "'./pong.aur'", ")", ";">>
       [] abs = "/w/pong.aur" ->
            <<"exports", ".", "x", "=", "2", ";",
              "exports", ".", "y", "=", "require", "(", "'./ping.aur'", ")", ";">>
       [] abs = "/w/half.aur" ->
            <<"exports", ".", "x", "=", "require", "(", "'./b.aur'", ")", ";", "undef", ";">>
       [] abs = "/w/syn.aur" ->
            <<"exports", ".", "x", "=", ";">>
       [] abs = "/w/lexbad.aur" ->
            <<"exports", ".", "x", "=", "1", ";", "#">>
       [] abs = "/w/shadow.aur" ->
            <<"let", "print", "=", "1", ";",
              "fun", "len", "(", ")", "{", "return", "2", ";", "}",
              "exports", ".", "x", "=", "print", "+", "len", "(", ")", ";">>
       [] abs = "/w/main.aur" ->
            <<"const", "m1", "=", "require", "(", "\"./a.aur\"", ")", ";",
              "const", "m2", "=", "require", "(", "\"./a.aur\"", ")", ";",
              "print", "(", "m1", ".", "bump", "(", ")", ")", ";",
              "print", "(", "m2", ".", "bump", "(", ")", ")", ";",
              "print", "(", "m1", "==", "m2", ")", ";">>]

\* lex(src, abs) and new Parser(tokens).parseProgram() for each file: what requireModule
\* computes from a file's text each time it loads it
parsedFiles ==
  [abs \in DOMAIN files |->
     LET tokens == lex(files[abs])
     IN IF tokens.ok THEN parseProgram(tokens.toks) ELSE tokens]

\* the names Interpreter.setupBuiltins defines in the global environment
builtinNames ==
  {"print", "len", "type", "clock", "range", "keys", "values", "push", "pop", "join",
   "fs_read", "fs_write", "fs_exists", "cwd", "homedir", "env", "httpGet", "exec",
   "require", "requireNpm", "import"}

(***************************************************************************)
(* class Interpreter: eval, execBlock, assign.                             *)
(***************************************************************************)
RECURSIVE eval(_, _, _), execBlock(_, _, _), execLoop(_, _, _, _, _), evalList(_, _, _, _, _),
          objectProps(_, _, _, _, _), whileLoop(_, _, _, _, _), forLoop(_, _, _, _, _),
          eval_For(_, _, _), eval_TryCatch(_, _, _), eval_Call(_, _, _), eval_New(_, _, _),
          eval_Binary(_, _, _), eval_Logical(_, _, _), eval_Property(_, _, _),
          eval_Index(_, _, _), eval_VarDecl(_, _, _), eval_Throw(_, _, _), eval_If(_, _, _),
          eval_Function(_, _, _), eval_ClassDecl(_, _, _), eval_ImportNamed(_, _, _),
          AuroraFunction_call(_, _, _, _), defineParams(_, _, _, _, _),
          AuroraClass_construct(_, _, _), installMethods(_, _, _, _), callValue(_, _, _),
          builtinCall(_, _, _), requireModule(_, _), assign(_, _, _, _)

\* let last=null; for (const s of stmts) last = this.eval(s, env); return last;
execLoop(stmts, j, env, st, lastv) ==
  IF j > Len(stmts) THEN Ok(lastv, st)
  ELSE AndThen(eval(stmts[j], env, st), LAMBDA r : execLoop(stmts, j + 1, env, r.st, r.v))

execBlock(stmts, env, st) == execLoop(stmts, 1, env, st, Null)

\* nodes.map(a => this.eval(a, env))
evalList(nodes, j, env, st, acc) ==
  IF j > Len(nodes) THEN [k |-> "ok", v |-> Undefined, st |-> st, vs |-> acc]
  ELSE AndThen(eval(nodes[j], env, st), LAMBDA r :
         evalList(nodes, j + 1, env, r.st, Append(acc, r.v)))

\* for (const {key,value} of node.props) o[key]=this.eval(value, env);
objectProps(props, j, env, st, o) ==
  IF j > Len(props) THEN Ok(o, st)
  ELSE AndThen(eval(props[j].value, env, st), LAMBDA r :
         objectProps(props, j + 1, env, jsSet(r.st, o, props[j].key, r.v), o))

\* a condition decided by truthy: the value tested and the branch taken
Tested(st, v) == Logged(st, [e |-> "test", v |-> v, taken |-> truthy(v)])

eval_VarDecl(node, env, st) ==
  AndThen(IF node.init.type # "null" THEN eval(node.init, env, st) ELSE Ok(Null, st), LAMBDA r :
  AndThen(define(r.st, env, node.name, r.v, node.kind = "CONST"), LAMBDA d : Ok(r.v, d.st)))

\* case 'FunctionDecl' and case 'FunctionExpr', which have the same body
eval_Function(node, env, st) ==
  LET fn == NewRef(st)
      s1 == Alloc(st, [k |-> "AuroraFunction", name |-> node.name, params |-> node.params,
                       body |-> node.body, closure |-> env, isMethod |-> FALSE])
      s2 == [s1 EXCEPT !.ghost.createdIn = (fn.r :> env) @@ @]
  IN AndThen(IF node.name # "" THEN define(s2, env, node.name, fn, TRUE) ELSE Ok(Undefined, s2),
             LAMBDA d : Ok(fn, Logged(d.st, [e |-> "function", type |-> node.type,
                                             name |-> node.name, fn |-> fn, env |-> env,
                                             before |-> st.envs[env], after |-> d.st.envs[env]])))

eval_ClassDecl(node, env, st) ==
  LET cls == NewRef(st)
      s1 == Alloc(st, [k |-> "AuroraClass", name |-> node.name, methods |-> node.methods,
                       closure |-> env])
  IN AndThen(define(s1, env, node.name, cls, TRUE), LAMBDA d : Ok(cls, d.st))

eval_ImportNamed(node, env, st) ==
  AndThen(requireModule(st, node.path), LAMBDA m :
  AndThen(define(m.st, env, node.local, m.v, TRUE), LAMBDA d : Ok(m.v, d.st)))

eval_If(node, env, st) ==
  LET t == eval(node.test, env, st)
  IN IF t.k # "ok" THEN t
     ELSE IF truthy(t.v) THEN eval(node.consequent, env, Tested(t.st, t.v))
     ELSE IF node.alternate.type # "null" THEN eval(node.alternate, env, Tested(t.st, t.v))
     ELSE Ok(Null, Tested(t.st, t.v))

\* let result=null; while (truthy(this.eval(node.test, env))) result=this.eval(node.body, env);
whileLoop(node, env, st, result, fuel) ==
  LET t == eval(node.test, env, st)
  IN IF t.k # "ok" THEN t
     ELSE IF ~truthy(t.v) THEN Ok(result, Tested(t.st, t.v))
     ELSE IF fuel = 0 THEN Hang(t.st)
     ELSE LET b == eval(node.body, env, Tested(t.st, t.v))
          IN IF b.k # "ok" THEN b ELSE whileLoop(node, env, b.st, b.v, fuel - 1)

\* while (node.test? truthy(this.eval(node.test, loopEnv)) : true) { body; update }
forLoop(node, loopEnv, st, result, fuel) ==
  LET t == IF node.test.type # "null" THEN eval(node.test, loopEnv, st) ELSE Ok(Bool(TRUE), st)
      s1 == IF node.test.type # "null" /\ t.k = "ok" THEN Tested(t.st, t.v) ELSE t.st
  IN IF t.k # "ok" THEN t
     ELSE IF ~truthy(t.v) THEN Ok(result, s1)
     ELSE IF fuel = 0 THEN Hang(s1)
     ELSE LET b == eval(node.body, loopEnv, s1)
              u == IF b.k = "ok" /\ node.update.type # "null" THEN eval(node.update, loopEnv, b.st) ELSE b
          IN IF u.k # "ok" THEN u ELSE forLoop(node, loopEnv, u.st, b.v, fuel - 1)

eval_For(node, env, st) ==
  LET loopEnv == Len(st.envs) + 1
      s1 == Env_new(st, env)
      i == IF node.init.type # "null" THEN eval(node.init, loopEnv, s1) ELSE Ok(Null, s1)
  IN IF i.k # "ok" THEN i ELSE forLoop(node, loopEnv, i.st, Null, MaxIter)

\* try { return this.eval(node.tryBlock, env); } catch (e) { ... }: catches whatever is thrown
eval_TryCatch(node, env, st) ==
  LET r == eval(node.tryBlock, env, st)
  IN IF r.k # "throw" THEN r
     ELSE IF node.catchBlock.type = "null" THEN r
     ELSE LET catchEnv == Len(r.st.envs) + 1
              s1 == Env_new(r.st, env)
              d == IF node.catchParam # "" THEN define(s1, catchEnv, node.catchParam, r.v, FALSE)
                   ELSE Ok(Undefined, s1)
              s2 == Logged(d.st, [e |-> "catch", param |-> node.catchParam, bound |-> r.v])
          IN eval(node.catchBlock, catchEnv, s2)

\* throw v instanceof Error ? v : new Error(String(v));
eval_Throw(node, env, st) ==
  LET r == eval(node.expr, env, st)
      raised == IF r.v.t = "error" THEN r.v ELSE JsError("Error", jsString(r.st, r.v, Fuel(r.st)), FALSE)
  IN IF r.k # "ok" THEN r
     ELSE Throw(raised, Logged(r.st, [e |-> "throw", v |-> r.v, raised |-> raised]))

\* a Logical expression that evaluates both operands before it chooses
eval_LogicalEager(node, env, st) ==
  LET l == eval(node.left, env, st)
      t == Tested(l.st, l.v)
      r == eval(node.right, env, t)
      chosen == IF (node.op = "||") = truthy(l.v) THEN l.v ELSE r.v
  IN IF l.k # "ok" THEN l
     ELSE IF r.k # "ok" THEN r
     ELSE Ok(chosen, Logged(r.st, [e |-> "logical", op |-> node.op, left |-> l.v,
                                   at |-> Len(t.log), result |-> chosen]))

\* the event "logical" records the operator, the value of the left operand, where in
\* the trace its truthiness was tested, and the value the expression yielded
eval_Logical(node, env, st) ==
  LET l == eval(node.left, env, st)
      t == Tested(l.st, l.v)
      r == IF node.op = "||"
           THEN IF truthy(l.v) THEN Ok(l.v, t) ELSE eval(node.right, env, t)
           ELSE IF ~truthy(l.v) THEN Ok(l.v, t) ELSE eval(node.right, env, t)
  IN IF l.k # "ok" THEN l
     ELSE IF r.k # "ok" THEN r
     ELSE [r EXCEPT !.st = Logged(@, [e |-> "logical", op |-> node.op, left |-> l.v,
                                      at |-> Len(t.log), result |-> r.v])]

eval_Binary(node, env, st) ==
  AndThen(eval(node.left, env, st), LAMBDA l :
  AndThen(eval(node.right, env, l.st), LAMBDA r :
    IF node.op \in {"==", "!="}
    THEN With(eq(r.st, l.v, r.v, {}), LAMBDA e :
           CASE e = "overflow" -> Throw(stackOverflow, r.st)
             [] e = "unmodelled" -> Unmodelled(r.st)
             [] OTHER -> Ok(Bool((e = "true") = (node.op = "==")), r.st))
    ELSE With(jsBinary(r.st, node.op, l.v, r.v), LAMBDA v :
           IF v.t = "unmodelled" THEN Unmodelled(r.st) ELSE Ok(v, r.st))))

eval_Property(node, env, st) ==
  LET o == eval(node.object, env, st)
  IN IF o.k # "ok" THEN o
     ELSE IF o.v.t \in {"null", "undefined"} \/ typeof(o.v) # "object"
          THEN Throw(runtimeError("Cannot access property of non-object"), o.st)
     ELSE Ok(jsGet(o.st, o.v, node.name), o.st)

eval_Index(node, env, st) ==
  LET o == eval(node.object, env, st)
      i == IF o.k = "ok" THEN eval(node.index, env, o.st) ELSE o
  IN IF i.k # "ok" THEN i
     ELSE IF (typeof(o.v) # "object" /\ typeof(o.v) # "string") \/ o.v.t \in {"null", "undefined"}
          THEN Throw(runtimeError("Indexing non-indexable"), i.st)
     ELSE IF o.v.t = "str" /\ jsString(i.st, i.v, Fuel(i.st)) # "length" THEN Unmodelled(i.st)
     ELSE Ok(jsGet(i.st, o.v, jsString(i.st, i.v, Fuel(i.st))), i.st)

\* v && typeof v.call === 'function'
hasCall(st, v) == v.t \notin {"null", "undefined"} /\ jsGet(st, v, "call").t = "hostfn"

eval_Call(node, env, st) ==
  IF node.callee.type = "Property"
  THEN AndThen(eval(node.callee.object, env, st), LAMBDA o :
         IF o.v.t \in {"null", "undefined"}
         THEN Throw(typeError("Cannot read properties of " \o jsString(o.st, o.v, 0)), o.st)
         ELSE With(jsGet(o.st, o.v, node.callee.name), LAMBDA method :
              AndThen(evalList(node.args, 1, env, o.st, <<>>), LAMBDA as :
                IF isKind(as.st, method, "AuroraFunction")
                THEN AuroraFunction_call(as.st, method.r, as.vs, o.v)
                ELSE IF truthy(method) /\ hasCall(as.st, method) THEN callValue(as.st, method, as.vs)
                ELSE Throw(runtimeError("Not callable: " \o repr(as.st, method, Fuel(as.st))), as.st))))
  ELSE AndThen(eval(node.callee, env, st), LAMBDA c :
       AndThen(evalList(node.args, 1, env, c.st, <<>>), LAMBDA as :
         IF isKind(as.st, c.v, "AuroraFunction") THEN AuroraFunction_call(as.st, c.v.r, as.vs, Null)
         ELSE IF isKind(as.st, c.v, "AuroraClass") THEN AuroraClass_construct(as.st, c.v.r, as.vs)
         ELSE IF truthy(c.v) /\ hasCall(as.st, c.v) THEN callValue(as.st, c.v, as.vs)
         ELSE Throw(runtimeError("Not callable: " \o repr(as.st, c.v, Fuel(as.st))), as.st)))

\* the parser never sets node.args of a New node, so args is []
eval_New(node, env, st) ==
  With(eval(node.callee, env, st), LAMBDA c :
  With(IF c.k # "ok" THEN c
       ELSE IF isKind(c.st, c.v, "AuroraClass") THEN AuroraClass_construct(c.st, c.v.r, <<>>)
       ELSE IF truthy(c.v) /\ hasCall(c.st, c.v) THEN callValue(c.st, c.v, <<>>)
       ELSE Throw(runtimeError("Not constructable: " \o repr(c.st, c.v, Fuel(c.st))), c.st),
       LAMBDA r :
    [r EXCEPT !.st = Logged(@, [e |-> "New", callee |-> node.callee.type,
                                calleeValue |-> IF c.k = "ok" THEN c.v ELSE Undefined,
                                k |-> r.k, v |-> r.v])]))

eval(node, env, st) ==
  CASE node.type = "Program" -> execBlock(node.body, env, st)
    [] node.type = "Block" -> execBlock(node.body, Len(st.envs) + 1, Env_new(st, env))
    [] node.type = "VarDecl" -> eval_VarDecl(node, env, st)
    [] node.type \in {"FunctionDecl", "FunctionExpr"} -> eval_Function(node, env, st)
    [] node.type = "ClassDecl" -> eval_ClassDecl(node, env, st)
    [] node.type = "Import" -> requireModule(st, node.path)
    [] node.type = "ImportNamed" -> eval_ImportNamed(node, env, st)
    [] node.type = "ExprStmt" -> eval(node.expression, env, st)
    [] node.type = "If" -> eval_If(node, env, st)
    [] node.type = "While" -> whileLoop(node, env, st, Null, MaxIter)
    [] node.type = "For" -> eval_For(node, env, st)
    [] node.type = "TryCatch" -> eval_TryCatch(node, env, st)
    [] node.type = "Return" ->
         LET r == IF node.argument.type # "null" THEN eval(node.argument, env, st) ELSE Ok(Null, st)
         IN IF r.k # "ok" THEN r ELSE Throw(ReturnSignal(r.v), r.st)
    [] node.type = "Throw" -> eval_Throw(node, env, st)
    [] node.type = "Assign" -> assign(node.target, node.value, env, st)
    [] node.type = "Logical" -> eval_Logical(node, env, st)
    [] node.type = "Binary" -> eval_Binary(node, env, st)
    [] node.type = "Unary" ->
         LET r == eval(node.right, env, st)
             n == toNumber(r.v)
         IN IF r.k # "ok" THEN r
            ELSE IF node.op = "!" THEN Ok(Bool(~truthy(r.v)), Tested(r.st, r.v))
            ELSE IF r.v.t = "numx" \/ n.t = "unmodelled" THEN Unmodelled(r.st)
            ELSE IF n.t = "nan" THEN Ok(NaN, r.st)
            ELSE Ok(Num(-n.n), r.st)
    [] node.type = "Literal" -> Ok(node.value, st)
    [] node.type = "Identifier" -> Env_get(st, env, node.name)
    [] node.type = "This" ->
         With(Env_get(st, env, "this"), LAMBDA r :
           [r EXCEPT !.st = Logged(@, [e |-> "this", env |-> env, k |-> r.k, v |-> r.v])])
    [] node.type = "Array" ->
         LET es == evalList(node.elements, 1, env, st, <<>>)
         IN IF es.k # "ok" THEN es
            ELSE Ok(NewRef(es.st), Alloc(es.st, [k |-> "array", elems |-> es.vs]))
    [] node.type = "Object" ->
         objectProps(node.props, 1, env, Alloc(st, [k |-> "record", keys |-> <<>>, vals |-> <<>>]),
                     NewRef(st))
    [] node.type = "Property" -> eval_Property(node, env, st)
    [] node.type = "Index" -> eval_Index(node, env, st)
    [] node.type = "Call" -> eval_Call(node, env, st)
    [] node.type = "New" -> eval_New(node, env, st)
    [] OTHER -> Throw(runtimeError("Unknown AST node " \o node.type), st)

\* for (let i=0;i<this.params.length;i++) env.define(this.params[i], args[i]);
defineParams(st, env, params, args, j) ==
  IF j > Len(params) THEN Ok(Undefined, st)
  ELSE AndThen(define(st, env, params[j], args[j], FALSE), LAMBDA d :
         defineParams(d.st, env, params, args, j + 1))

\* a call whose frame hangs off the global scope instead of the closure's scope
AuroraFunction_callInGlobalScope(st, fn, args, thisArg) ==
  LET f == st.heap[fn]
      depth == st.depth
      frame == Len(st.envs) + 1
      s1 == [Env_new(st, 1) EXCEPT !.depth = depth + 1]
      s2 == Logged(s1, [e |-> "call", fn |-> fn, frame |-> frame, parent |-> s1.envs[frame].parent,
                        this |-> thisArg])
  IN IF Len(args) # Len(f.params)
     THEN Throw(runtimeError("Expected " \o numToString(Len(f.params)) \o " args, got "
                             \o numToString(Len(args))), st)
     ELSE IF depth >= MaxDepth THEN Throw(stackOverflow, st)
     ELSE With(AndThen(IF thisArg # Null THEN define(s2, frame, "this", thisArg, TRUE)
                       ELSE Ok(Undefined, s2), LAMBDA t :
               AndThen(defineParams(t.st, frame, f.params, args, 1), LAMBDA ps :
                 execBlock(f.body.body, frame, ps.st))), LAMBDA b :
            [(IF b.k = "throw" /\ b.v.t = "ReturnSignal" THEN Ok(b.v.value, b.st) ELSE b)
               EXCEPT !.st.depth = depth])

\* a body that runs in a scope of its own under the scope of the parameters
execFunctionBodyInOwnScope(stmts, env, st) == execBlock(stmts, Len(st.envs) + 1, Env_new(st, env))

\* interp.execBlock(this.body.body, env, true): the statements of the body, in the scope env
execFunctionBody(stmts, env, st) == execBlock(stmts, env, st)

\* AuroraFunction.call(interp, args, thisArg = null); fn is the closure's place in the heap
AuroraFunction_call(st, fn, args, thisArg) ==
  LET f == st.heap[fn]
      depth == st.depth
      frame == Len(st.envs) + 1
      s1 == [Env_new(st, f.closure) EXCEPT !.depth = depth + 1]
      s2 == Logged(s1, [e |-> "call", fn |-> fn, frame |-> frame, parent |-> s1.envs[frame].parent,
                        this |-> thisArg])
  IN IF Len(args) # Len(f.params)
     THEN Throw(runtimeError("Expected " \o numToString(Len(f.params)) \o " args, got "
                             \o numToString(Len(args))), st)
     ELSE IF depth >= MaxDepth THEN Throw(stackOverflow, st)
     ELSE With(AndThen(IF thisArg # Null THEN define(s2, frame, "this", thisArg, TRUE)
                       ELSE Ok(Undefined, s2), LAMBDA t :
               AndThen(defineParams(t.st, frame, f.params, args, 1), LAMBDA ps :
                 execFunctionBody(f.body.body, frame, ps.st))), LAMBDA b :
            [(IF b.k = "throw" /\ b.v.t = "ReturnSignal" THEN Ok(b.v.value, b.st) ELSE b)
               EXCEPT !.st.depth = depth])

\* for (const m of this.methods) { fn = new AuroraFunction(..., this.closure, true); inst[m.name] = wrapper }
installMethods(st, cls, inst, j) ==
  LET c == st.heap[cls]
      m == c.methods[j]
      fn == Len(st.heap) + 1
      s1 == Alloc(st, [k |-> "AuroraFunction", name |-> m.name, params |-> m.params,
                       body |-> m.body, closure |-> c.closure, isMethod |-> TRUE])
      s2 == Alloc([s1 EXCEPT !.ghost.createdIn = (fn :> c.closure) @@ @],
                  [k |-> "method", name |-> m.name, fn |-> fn, inst |-> inst])
  IN IF j > Len(c.methods) THEN st
     ELSE installMethods(jsSet(s2, Ref(inst), m.name, Ref(fn + 1)), cls, inst, j + 1)

\* AuroraClass.construct(interp, args); cls is the class's place in the heap
AuroraClass_construct(st, cls, args) ==
  LET inst == Len(st.heap) + 1
  IN With(installMethods(Alloc(st, [k |-> "record", keys |-> <<>>, vals |-> <<>>]), cls, inst, 1),
          LAMBDA s1 :
     With(jsGet(s1, Ref(inst), "constructor"), LAMBDA ctor :
     With(Logged(s1, [e |-> "construct", cls |-> cls, inst |-> inst, args |-> args,
                      ctor |-> ctor.t]), LAMBDA s2 :
     AndThen(IF truthy(ctor) THEN callValue(s2, ctor, args) ELSE Ok(Undefined, s2), LAMBDA r :
       Ok(Ref(inst), r.st)))))

\* a method wrapper that passes no thisArg
unboundInstance(st, wrapper) == Null

\* the inst a method wrapper closes over: (i, a) => fn.call(interp, a, inst)
boundInstance(st, wrapper) == Ref(st.heap[wrapper.r].inst)

\* callee.call(interp, args) for a callee that is no AuroraFunction: a builtin or a
\* method wrapper ({call: ...}), or a host function reached through Function.prototype.call
callValue(st, callee, args) ==
  CASE callee.t = "builtin" -> builtinCall(st, callee.name, args)
    [] callee.t = "ref" /\ st.heap[callee.r].k = "method" ->
         AuroraFunction_call(st, st.heap[callee.r].fn, args, boundInstance(st, callee))
    [] callee.t = "hostfn" /\ callee.name = "constructor" ->
         Ok(NewRef(st), Alloc(st, [k |-> "array", elems |-> args]))
    [] callee.t = "hostfn" /\ callee.name = "toString" -> Ok(Str("[object Object]"), st)
    [] OTHER -> Unmodelled(st)

\* Array.prototype.unshift in place of push
jsUnshift(elems, items) == items \o elems

\* Array.prototype.push: elems.push(...items)
jsPush(elems, items) == elems \o items

\* the call functions Interpreter.setupBuiltins registers
builtinCall(st, name, args) ==
  CASE name = "print" ->
         Ok(Null, [st EXCEPT !.out = Append(@, joinStrings([j \in 1..Len(args) |->
                                                  repr(st, args[j], Fuel(st))], " "))])
    [] name = "len" ->
         IF Len(args) # 1 THEN Throw(runtimeError("len expects 1 arg"), st)
         ELSE IF args[1].t = "str" THEN Ok(Num(Len(args[1].s)), st)
         ELSE IF isArray(st, args[1]) THEN Ok(Num(Len(st.heap[args[1].r].elems)), st)
         ELSE IF isKind(st, args[1], "record") THEN Ok(Num(Len(st.heap[args[1].r].keys)), st)
         ELSE IF truthy(args[1]) /\ typeof(args[1]) = "object" THEN Unmodelled(st)
         ELSE Throw(runtimeError("len expects string/array/object"), st)
    [] name = "type" ->
         IF Len(args) # 1 THEN Throw(runtimeError("type expects 1 arg"), st)
         ELSE Ok(Str(jstype(st, args[1])), st)
    [] name = "push" ->
         IF Len(args) < 2 \/ ~isArray(st, args[1]) THEN Throw(runtimeError("push(arr, item)"), st)
         ELSE With([st EXCEPT !.heap[args[1].r].elems = jsPush(@, Tail(args))], LAMBDA s1 :
              Ok(Num(Len(s1.heap[args[1].r].elems)), s1))
    [] name = "pop" ->
         IF Len(args) # 1 \/ ~isArray(st, args[1]) THEN Throw(runtimeError("pop(arr)"), st)
         ELSE IF st.heap[args[1].r].elems = <<>> THEN Ok(Undefined, st)
         ELSE Ok(st.heap[args[1].r].elems[Len(st.heap[args[1].r].elems)],
                 [st EXCEPT !.heap[args[1].r].elems = SubSeq(@, 1, Len(@) - 1)])
    [] name = "keys" ->
         IF Len(args) # 1 \/ ~truthy(args[1]) \/ typeof(args[1]) # "object" \/ isArray(st, args[1])
         THEN Throw(runtimeError("keys expects object"), st)
         ELSE IF ~isKind(st, args[1], "record") THEN Unmodelled(st)
         ELSE Ok(NewRef(st), Alloc(st, [k |-> "array",
                   elems |-> [j \in 1..Len(st.heap[args[1].r].keys) |-> Str(st.heap[args[1].r].keys[j])]]))
    [] name = "values" ->
         IF Len(args) # 1 \/ ~truthy(args[1]) \/ typeof(args[1]) # "object" \/ isArray(st, args[1])
         THEN Throw(runtimeError("values expects object"), st)
         ELSE IF ~isKind(st, args[1], "record") THEN Unmodelled(st)
         ELSE Ok(NewRef(st), Alloc(st, [k |-> "array",
                   elems |-> [j \in 1..Len(st.heap[args[1].r].keys) |->
                                st.heap[args[1].r].vals[st.heap[args[1].r].keys[j]]]]))
    [] name \in {"require", "import"} ->
         IF Len(args) < 1 THEN Throw(runtimeError(name \o "(" \o (IF name = "require" THEN "module" ELSE "path") \o ")"), st)
         ELSE requireModule(st, jsString(st, args[1], Fuel(st)))
    [] OTHER -> Unmodelled(st)

\* e.message of whatever requireModule's catch receives
messageOf(e) == IF e.t = "error" THEN e.message ELSE "undefined"

\* a catch clause that also leaves a null entry for the module in the cache
loadFailedCachingNull(spec, r) ==
  Throw(runtimeError("Error loading module " \o spec \o ": " \o messageOf(r.v)),
        IF spec \in DOMAIN resolve
        THEN [r.st EXCEPT !.moduleCache = (resolve[spec] :> Null) @@ @] ELSE r.st)

\* requireModule's catch (e) { throw runtimeError('Error loading module ' + spec + ': ' + e.message); }
loadFailed(spec, r) ==
  Throw(runtimeError("Error loading module " \o spec \o ": " \o messageOf(r.v)), r.st)

\* Interpreter.requireModule(spec)
requireModule(st, spec) ==
  LET depth == st.depth
      absPath == resolve[spec]
      moduleEnv == Len(st.envs) + 1
      s1 == [Env_new(st, 1) EXCEPT !.depth = depth + 1]
  IN With(IF spec \notin DOMAIN resolve THEN Unmodelled(st)
          ELSE IF absPath \in DOMAIN st.moduleCache THEN Ok(st.moduleCache[absPath], st)
          ELSE IF absPath \notin DOMAIN files
               THEN Throw(JsError("Error", "ENOENT: no such file or directory, open '" \o absPath \o "'", FALSE), st)
          ELSE With(parsedFiles[absPath], LAMBDA ast :
               IF ~ast.ok THEN Throw(ast.err, st)
               ELSE IF depth >= MaxDepth THEN Throw(stackOverflow, st)
               ELSE With(define(Alloc(s1, [k |-> "record", keys |-> <<>>, vals |-> <<>>]),
                                moduleEnv, "exports", NewRef(s1), TRUE), LAMBDA d1 :
                    With(define(Alloc(d1.st, [k |-> "record", keys |-> <<"exports">>,
                                  vals |-> ("exports" :> Env_get(d1.st, moduleEnv, "exports").v)]),
                                moduleEnv, "module", NewRef(d1.st), TRUE), LAMBDA d2 :
                    AndThen(execBlock(ast.node.body, moduleEnv,
                                      Logged([d2.st EXCEPT !.ghost.evals[absPath] = @ + 1],
                                             [e |-> "moduleEval", path |-> absPath])), LAMBDA b :
                    With(jsGet(b.st, Env_get(b.st, moduleEnv, "module").v, "exports"),
                         LAMBDA exported :
                      Ok(exported, [b.st EXCEPT !.moduleCache = (absPath :> exported) @@ @])))))),
          LAMBDA r :
     With(IF r.k = "throw" THEN loadFailed(spec, r) ELSE r, LAMBDA caught :
       [caught EXCEPT !.st.depth = depth,
                      !.st.log = Append(@, [e |-> "require", spec |-> spec,
                                            cached |-> spec \in DOMAIN resolve /\ absPath \in DOMAIN st.moduleCache,
                                            evalsBefore |-> st.ghost.evals, evalsAfter |-> caught.st.ghost.evals,
                                            cacheBefore |-> st.moduleCache,
                                            cacheAfter |-> caught.st.moduleCache,
                                            k |-> caught.k, v |-> caught.v])]))

\* Interpreter.assign(target, valueNode, env)
assign(target, valueNode, env, st) ==
  CASE target.type = "Identifier" ->
         AndThen(eval(valueNode, env, st), LAMBDA val :
         AndThen(assignName(val.st, env, target.name, val.v), LAMBDA a : Ok(val.v, a.st)))
    [] target.type = "Property" ->
         AndThen(eval(target.object, env, st), LAMBDA o :
           IF ~truthy(o.v) \/ typeof(o.v) # "object"
           THEN Throw(runtimeError("Cannot set property on non-object"), o.st)
           ELSE AndThen(eval(valueNode, env, o.st), LAMBDA val :
                  IF ~canSet(val.st, o.v, target.name) THEN Unmodelled(val.st)
                  ELSE Ok(val.v, jsSet(val.st, o.v, target.name, val.v))))
    [] target.type = "Index" ->
         AndThen(eval(target.object, env, st), LAMBDA o :
         AndThen(eval(target.index, env, o.st), LAMBDA i :
           IF o.v.t \in {"null", "undefined"} \/ (typeof(o.v) # "object" /\ typeof(o.v) # "string")
           THEN Throw(runtimeError("Cannot index into non-indexable"), i.st)
           ELSE AndThen(eval(valueNode, env, i.st), LAMBDA val :
                  IF o.v.t = "str" THEN Ok(val.v, val.st)
                  ELSE With(jsString(val.st, i.v, Fuel(val.st)), LAMBDA key :
                         IF ~canSet(val.st, o.v, key) THEN Unmodelled(val.st)
                         ELSE Ok(val.v, jsSet(val.st, o.v, key, val.v))))))
    [] OTHER -> Throw(runtimeError("Invalid assignment target"), st)

\* function run(source, interp, filename)
run(source, st) ==
  With(lex(source), LAMBDA tokens :
    IF ~tokens.ok THEN Throw(tokens.err, st)
    ELSE With(parseProgram(tokens.toks), LAMBDA ast :
           IF ~ast.ok THEN Throw(ast.err, st) ELSE eval(ast.node, 1, st)))

(***************************************************************************)
(* The source units of a session.  buffers are what the user types at the  *)
(* REPL before a ;; line; files (above) is what .load and runFile read.    *)
(***************************************************************************)
buffers ==
  [name \in {"declP", "declD", "newArgs", "newBare", "newEmpty", "callP", "useNew", "scenario3",
               "retTry", "retTryBind", "retLoop", "tryQuiet", "whileBreak", "forContinue",
               "forCount", "topReturn", "throwNum", "throwStr", "throwNull", "throwBool",
               "throwArr", "throwRec", "scenario4", "rethrow", "uncaught", "ifFalsy", "ifTruthy",
               "notOps", "logicOps", "loopsFalsy", "whileArray", "reqA", "reqB", "reqBad",
               "reqCyc", "reqMissing", "reqRet", "tryBad", "shared", "constC", "letX", "setC",
               "setX", "shadowLet", "shadowConst", "nestedSetC", "nestedSetX", "twice", "setUndef",
               "letPrint", "scenario2", "counters", "callSite", "captured", "globalN",
               "badTarget", "badTargetCall", "badTargetCaught", "importNamed", "importPlain",
               "powRight", "subLeft", "scenario1", "eqEmpty", "eqIndexed", "eqNumStr", "eqNaN",
               "eqUndef", "thisTop", "thisPlain", "thisClosure", "thisDetached", "thisMethod",
               "topReturnCaught", "logicCalls", "reqPing",
               "funDecl", "funExprAnon", "funExprNamed", "funExprSelf",
               "reqHalf", "reqSyn", "reqLex",
               "paramLet", "paramConst", "paramFun", "paramTwice", "paramBlock",
               "constLen", "funRequire", "classPrint", "setPrint", "declN", "reqShadow",
               "thisStored", "thisSwapped"} |->
     CASE name = "declP" ->
            \* class P { init(x){ this.x = x; } get(){ return this.x; } }
            <<"class", "P", "{", "init", "(", "x", ")", "{", "this", ".", "x", "=", "x", ";", "}",
              "get", "(", ")", "{", "return", "this", ".", "x", ";", "}", "}">>
       [] name = "declD" ->
            \* class D { constructor(x){ this.x = x; } }
            <<"class", "D", "{", "constructor", "(", "x", ")", "{", "this", ".", "x", "=", "x",
              ";", "}", "}">>
       [] name = "newArgs" ->
            \* new P(42)
            <<"new", "P", "(", "42", ")">>
       [] name = "newBare" ->
            \* new P
            <<"new", "P">>
       [] name = "newEmpty" ->
            \* new P()
            <<"new", "P", "(", ")">>
       [] name = "callP" ->
            \* P(42)
            <<"P", "(", "42", ")">>
       [] name = "useNew" ->
            \* { let p = new P; p.init(42); print(p.get()); }
            <<"{", "let", "p", "=", "new", "P", ";", "p", ".", "init", "(", "42", ")", ";",
              "print", "(", "p", ".", "get", "(", ")", ")", ";", "}">>
       [] name = "scenario3" ->
            \* class P { constructor(x){ this.x = x; } get(){ return this.x; } } let p = new P(42); print(p.get());
            <<"class", "P", "{", "constructor", "(", "x", ")", "{", "this", ".", "x", "=", "x",
              ";", "}", "get", "(", ")", "{", "return", "this", ".", "x", ";", "}", "}", "let",
              "p", "=", "new", "P", "(", "42", ")", ";", "print", "(", "p", ".", "get", "(", ")",
              ")", ";">>
       [] name = "retTry" ->
            \* { fun f(){ try { return 1; } catch (e) { return 2; } } print(f()); }
            <<"{", "fun", "f", "(", ")", "{", "try", "{", "return", "1", ";", "}", "catch", "(",
              "e", ")", "{", "return", "2", ";", "}", "}", "print", "(", "f", "(", ")", ")", ";",
              "}">>
       [] name = "retTryBind" ->
            \* { fun g(){ try { return 1; } catch (e) { print(e); } return 3; } print(g()); }
            <<"{", "fun", "g", "(", ")", "{", "try", "{", "return", "1", ";", "}", "catch", "(",
              "e", ")", "{", "print", "(", "e", ")", ";", "}", "return", "3", ";", "}", "print",
              "(", "g", "(", ")", ")", ";", "}">>
       [] name = "retLoop" ->
            \* { fun f(){ while (true) { return 5; } } print(f()); }
            <<"{", "fun", "f", "(", ")", "{", "while", "(", "true", ")", "{", "return", "5", ";",
              "}", "}", "print", "(", "f", "(", ")", ")", ";", "}">>
       [] name = "tryQuiet" ->
            \* { fun f(){ try { print(1); } catch (e) { print(2); } return 4; } print(f()); }
            <<"{", "fun", "f", "(", ")", "{", "try", "{", "print", "(", "1", ")", ";", "}",
              "catch", "(", "e", ")", "{", "print", "(", "2", ")", ";", "}", "return", "4", ";",
              "}", "print", "(", "f", "(", ")", ")", ";", "}">>
       [] name = "whileBreak" ->
            \* { let i = 0; while (i < 3) { i = i + 1; if (i == 2) break; } print(i); }
            <<"{", "let", "i", "=", "0", ";", "while", "(", "i", "<", "3", ")", "{", "i", "=", "i",
              "+", "1", ";", "if", "(", "i", "==", "2", ")", "break", ";", "}", "print", "(", "i",
              ")", ";", "}">>
       [] name = "forContinue" ->
            \* for (let i = 0; i < 3; i = i + 1) { if (i == 1) continue; print(i); }
            <<"for", "(", "let", "i", "=", "0", ";", "i", "<", "3", ";", "i", "=", "i", "+", "1",
              ")", "{", "if", "(", "i", "==", "1", ")", "continue", ";", "print", "(", "i", ")",
              ";", "}">>
       [] name = "forCount" ->
            \* for (let i = 0; i < 3; i = i + 1) { print(i); }
            <<"for", "(", "let", "i", "=", "0", ";", "i", "<", "3", ";", "i", "=", "i", "+", "1",
              ")", "{", "print", "(", "i", ")", ";", "}">>
       [] name = "topReturn" ->
            \* return 1;
            <<"return", "1", ";">>
       [] name = "throwNum" ->
            \* try { throw 1; } catch (e) { print(e == 1); }
            <<"try", "{", "throw", "1", ";", "}", "catch", "(", "e", ")", "{", "print", "(", "e",
              "==", "1", ")", ";", "}">>
       [] name = "throwStr" ->
            \* try { throw 'boom'; } catch (e) { print(e == 'boom'); }
            <<"try", "{", "throw", "'boom'", ";", "}", "catch", "(", "e", ")", "{", "print", "(",
              "e", "==", "'boom'", ")", ";", "}">>
       [] name = "throwNull" ->
            \* try { throw null; } catch (e) { print(e == null); }
            <<"try", "{", "throw", "null", ";", "}", "catch", "(", "e", ")", "{", "print", "(",
              "e", "==", "null", ")", ";", "}">>
       [] name = "throwBool" ->
            \* try { throw true; } catch (e) { print(e == true); }
            <<"try", "{", "throw", "true", ";", "}", "catch", "(", "e", ")", "{", "print", "(",
              "e", "==", "true", ")", ";", "}">>
       [] name = "throwArr" ->
            \* { let a = [1]; try { throw a; } catch (e) { print(e == a); } }
            <<"{", "let", "a", "=", "[", "1", "]", ";", "try", "{", "throw", "a", ";", "}",
              "catch", "(", "e", ")", "{", "print", "(", "e", "==", "a", ")", ";", "}", "}">>
       [] name = "throwRec" ->
            \* { let o = {a: 1}; try { throw o; } catch (e) { print(e == o); } }
            <<"{", "let", "o", "=", "{", "a", ":", "1", "}", ";", "try", "{", "throw", "o", ";",
              "}", "catch", "(", "e", ")", "{", "print", "(", "e", "==", "o", ")", ";", "}", "}">>
       [] name = "scenario4" ->
            \* try { let a = undef; } catch (e) { print("caught"); }
            <<"try", "{", "let", "a", "=", "undef", ";", "}", "catch", "(", "e", ")", "{", "print",
              "(", "\"caught\"", ")", ";", "}">>
       [] name = "rethrow" ->
            \* try { try { undef; } catch (e) { throw e; } } catch (x) { print(x.message); }
            <<"try", "{", "try", "{", "undef", ";", "}", "catch", "(", "e", ")", "{", "throw", "e",
              ";", "}", "}", "catch", "(", "x", ")", "{", "print", "(", "x", ".", "message", ")",
              ";", "}">>
       [] name = "uncaught" ->
            \* throw 'boom';
            <<"throw", "'boom'", ";">>
       [] name = "ifFalsy" ->
            \* if (0) print(1); else print(0); if ('') print(1); else print(0); if (null) print(1); else print(0); if (false) print(1); else print(0);
            <<"if", "(", "0", ")", "print", "(", "1", ")", ";", "else", "print", "(", "0", ")",
              ";", "if", "(", "''", ")", "print", "(", "1", ")", ";", "else", "print", "(", "0",
              ")", ";", "if", "(", "null", ")", "print", "(", "1", ")", ";", "else", "print", "(",
              "0", ")", ";", "if", "(", "false", ")", "print", "(", "1", ")", ";", "else", "print",
              "(", "0", ")", ";">>
       [] name = "ifTruthy" ->
            \* if ([]) print(1); else print(0); if ({}) print(1); else print(0); if (1) print(1); else print(0); if ('a') print(1); else print(0); if (true) print(1); else print(0);
            <<"if", "(", "[", "]", ")", "print", "(", "1", ")", ";", "else", "print", "(", "0",
              ")", ";", "if", "(", "{", "}", ")", "print", "(", "1", ")", ";", "else", "print",
              "(", "0", ")", ";", "if", "(", "1", ")", "print", "(", "1", ")", ";", "else",
              "print", "(", "0", ")", ";", "if", "(", "'a'", ")", "print", "(", "1", ")", ";",
              "else", "print", "(", "0", ")", ";", "if", "(", "true", ")", "print", "(", "1", ")",
              ";", "else", "print", "(", "0", ")", ";">>
       [] name = "notOps" ->
            \* print(!0, !'', ![], !{}, !null);
            <<"print", "(", "!", "0", ",", "!", "''", ",", "!", "[", "]", ",", "!", "{", "}", ",",
              "!", "null", ")", ";">>
       [] name = "logicOps" ->
            \* print(0 || 2, '' && 2, null || 3, [] && 4);
            <<"print", "(", "0", "||", "2", ",", "''", "&&", "2", ",", "null", "||", "3", ",", "[",
              "]", "&&", "4", ")", ";">>
       [] name = "loopsFalsy" ->
            \* while (0) { print(1); } for (; ''; ) { print(2); }
            <<"while", "(", "0", ")", "{", "print", "(", "1", ")", ";", "}", "for", "(", ";", "''",
              ";", ")", "{", "print", "(", "2", ")", ";", "}">>
       [] name = "whileArray" ->
            \* { let a = []; while (a) { print(1); a = null; } }
            <<"{", "let", "a", "=", "[", "]", ";", "while", "(", "a", ")", "{", "print", "(", "1",
              ")", ";", "a", "=", "null", ";", "}", "}">>
       [] name = "reqA" ->
            \* require('./a.aur')
            <<"require", "(", "'./a.aur'", ")">>
       [] name = "reqB" ->
            \* require('./b.aur')
            <<"require", "(", "'./b.aur'", ")">>
       [] name = "reqBad" ->
            \* require('./bad.aur')
            <<"require", "(", "'./bad.aur'", ")">>
       [] name = "reqCyc" ->
            \* require('./cyc.aur')
            <<"require", "(", "'./cyc.aur'", ")">>
       [] name = "reqPing" ->
            \* require('./ping.aur')
            <<"require", "(", "'./ping.aur'", ")">>
       [] name = "funDecl" ->
            \* { fun g(){ return 1; } print(g()); g = 2; }
            <<"{", "fun", "g", "(", ")", "{", "return", "1", ";", "}", "print", "(", "g", "(", ")",
              ")", ";", "g", "=", "2", ";", "}">>
       [] name = "funExprAnon" ->
            \* { let f = fun(){ return 1; }; print(f()); }
            <<"{", "let", "f", "=", "fun", "(", ")", "{", "return", "1", ";", "}", ";", "print",
              "(", "f", "(", ")", ")", ";", "}">>
       [] name = "funExprNamed" ->
            \* { let f = fun g(){ return 1; }; print(g()); g = 2; }
            <<"{", "let", "f", "=", "fun", "g", "(", ")", "{", "return", "1", ";", "}", ";",
              "print", "(", "g", "(", ")", ")", ";", "g", "=", "2", ";", "}">>
       [] name = "funExprSelf" ->
            \* { let g = fun g(){ return 1; }; print(g()); }
            <<"{", "let", "g", "=", "fun", "g", "(", ")", "{", "return", "1", ";", "}", ";",
              "print", "(", "g", "(", ")", ")", ";", "}">>
       [] name = "reqHalf" ->
            \* require('./half.aur')
            <<"require", "(", "'./half.aur'", ")">>
       [] name = "reqSyn" ->
            \* require('./syn.aur')
            <<"require", "(", "'./syn.aur'", ")">>
       [] name = "reqLex" ->
            \* require('./lexbad.aur')
            <<"require", "(", "'./lexbad.aur'", ")">>
       [] name = "paramLet" ->
            \* { fun f(x){ let x = 2; return x; } print(7); print(f(1)); }
            <<"{", "fun", "f", "(", "x", ")", "{", "let", "x", "=", "2", ";", "return", "x", ";",
              "}", "print", "(", "7", ")", ";", "print", "(", "f", "(", "1", ")", ")", ";", "}">>
       [] name = "paramConst" ->
            \* { fun f(x){ const x = 2; return x; } print(7); print(f(1)); }
            <<"{", "fun", "f", "(", "x", ")", "{", "const", "x", "=", "2", ";", "return", "x", ";",
              "}", "print", "(", "7", ")", ";", "print", "(", "f", "(", "1", ")", ")", ";", "}">>
       [] name = "paramFun" ->
            \* { fun f(x){ fun x(){ return 2; } return x; } print(7); print(f(1)); }
            <<"{", "fun", "f", "(", "x", ")", "{", "fun", "x", "(", ")", "{", "return", "2", ";",
              "}", "return", "x", ";", "}", "print", "(", "7", ")", ";", "print", "(", "f", "(",
              "1", ")", ")", ";", "}">>
       [] name = "paramTwice" ->
            \* { fun f(x, x){ return x; } print(7); print(f(1, 2)); }
            <<"{", "fun", "f", "(", "x", ",", "x", ")", "{", "return", "x", ";", "}", "print", "(",
              "7", ")", ";", "print", "(", "f", "(", "1", ",", "2", ")", ")", ";", "}">>
       [] name = "paramBlock" ->
            \* { fun f(x){ { let x = 2; print(x); } return x; } print(7); print(f(1)); }
            <<"{", "fun", "f", "(", "x", ")", "{", "{", "let", "x", "=", "2", ";", "print", "(",
              "x", ")", ";", "}", "return", "x", ";", "}", "print", "(", "7", ")", ";", "print",
              "(", "f", "(", "1", ")", ")", ";", "}">>
       [] name = "constLen" ->
            \* const len = 1;
            <<"const", "len", "=", "1", ";">>
       [] name = "funRequire" ->
            \* fun require(){ return 1; }
            <<"fun", "require", "(", ")", "{", "return", "1", ";", "}">>
       [] name = "classPrint" ->
            \* class print { }
            <<"class", "print", "{", "}">>
       [] name = "setPrint" ->
            \* print = 1;
            <<"print", "=", "1", ";">>
       [] name = "declN" ->
            \* let n = 5;
            <<"let", "n", "=", "5", ";">>
       [] name = "reqShadow" ->
            \* print(require('./shadow.aur').x);
            <<"print", "(", "require", "(", "'./shadow.aur'", ")", ".", "x", ")", ";">>
       [] name = "reqMissing" ->
            \* require('./missing.aur')
            <<"require", "(", "'./missing.aur'", ")">>
       [] name = "reqRet" ->
            \* require('./ret.aur')
            <<"require", "(", "'./ret.aur'", ")">>
       [] name = "tryBad" ->
            \* try { require('./bad.aur'); } catch (e) { print(e.message); }
            <<"try", "{", "require", "(", "'./bad.aur'", ")", ";", "}", "catch", "(", "e", ")",
              "{", "print", "(", "e", ".", "message", ")", ";", "}">>
       [] name = "shared" ->
            \* { const m1 = require("./a.aur"); const m2 = require("./a.aur"); print(m1.bump()); print(m2.bump()); }
            <<"{", "const", "m1", "=", "require", "(", "\"./a.aur\"", ")", ";", "const", "m2", "=",
              "require", "(", "\"./a.aur\"", ")", ";", "print", "(", "m1", ".", "bump", "(", ")",
              ")", ";", "print", "(", "m2", ".", "bump", "(", ")", ")", ";", "}">>
       [] name = "constC" ->
            \* const c = 1;
            <<"const", "c", "=", "1", ";">>
       [] name = "letX" ->
            \* let x = 1;
            <<"let", "x", "=", "1", ";">>
       [] name = "setC" ->
            \* c = 2;
            <<"c", "=", "2", ";">>
       [] name = "setX" ->
            \* x = x + 1;
            <<"x", "=", "x", "+", "1", ";">>
       [] name = "shadowLet" ->
            \* { let c = 5; c = 6; print(c); }
            <<"{", "let", "c", "=", "5", ";", "c", "=", "6", ";", "print", "(", "c", ")", ";", "}">>
       [] name = "shadowConst" ->
            \* { const x = 5; x = 6; }
            <<"{", "const", "x", "=", "5", ";", "x", "=", "6", ";", "}">>
       [] name = "nestedSetC" ->
            \* { let y = 0; { y = 4; c = 3; } }
            <<"{", "let", "y", "=", "0", ";", "{", "y", "=", "4", ";", "c", "=", "3", ";", "}", "}">>
       [] name = "nestedSetX" ->
            \* { let y = 0; { x = 3; y = 4; } print(x, y); }
            <<"{", "let", "y", "=", "0", ";", "{", "x", "=", "3", ";", "y", "=", "4", ";", "}",
              "print", "(", "x", ",", "y", ")", ";", "}">>
       [] name = "twice" ->
            \* { let len = 1; let a = len; let a = 2; }
            <<"{", "let", "len", "=", "1", ";", "let", "a", "=", "len", ";", "let", "a", "=", "2",
              ";", "}">>
       [] name = "setUndef" ->
            \* y = 1;
            <<"y", "=", "1", ";">>
       [] name = "letPrint" ->
            \* let print = 1;
            <<"let", "print", "=", "1", ";">>
       [] name = "scenario2" ->
            \* fun mk(){ let n = 0; return fun(){ n = n + 1; return n; }; } const c = mk(); print(c()); print(c()); print(c());
            <<"fun", "mk", "(", ")", "{", "let", "n", "=", "0", ";", "return", "fun", "(", ")",
              "{", "n", "=", "n", "+", "1", ";", "return", "n", ";", "}", ";", "}", "const", "c",
              "=", "mk", "(", ")", ";", "print", "(", "c", "(", ")", ")", ";", "print", "(", "c",
              "(", ")", ")", ";", "print", "(", "c", "(", ")", ")", ";">>
       [] name = "counters" ->
            \* { fun mk(){ let n = 0; return fun(){ n = n + 1; return n; }; } const c1 = mk(); const c2 = mk(); print(c1()); print(c1()); print(c2()); print(c1()); }
            <<"{", "fun", "mk", "(", ")", "{", "let", "n", "=", "0", ";", "return", "fun", "(",
              ")", "{", "n", "=", "n", "+", "1", ";", "return", "n", ";", "}", ";", "}", "const",
              "c1", "=", "mk", "(", ")", ";", "const", "c2", "=", "mk", "(", ")", ";", "print",
              "(", "c1", "(", ")", ")", ";", "print", "(", "c1", "(", ")", ")", ";", "print", "(",
              "c2", "(", ")", ")", ";", "print", "(", "c1", "(", ")", ")", ";", "}">>
       [] name = "callSite" ->
            \* { let n = 9; print(c()); }
            <<"{", "let", "n", "=", "9", ";", "print", "(", "c", "(", ")", ")", ";", "}">>
       [] name = "captured" ->
            \* { fun mk(x){ return fun(){ x = x + 1; return x; }; } const c1 = mk(0); const c2 = mk(5); print(c1(), c2(), c1()); }
            <<"{", "fun", "mk", "(", "x", ")", "{", "return", "fun", "(", ")", "{", "x", "=", "x",
              "+", "1", ";", "return", "x", ";", "}", ";", "}", "const", "c1", "=", "mk", "(", "0",
              ")", ";", "const", "c2", "=", "mk", "(", "5", ")", ";", "print", "(", "c1", "(", ")",
              ",", "c2", "(", ")", ",", "c1", "(", ")", ")", ";", "}">>
       [] name = "globalN" ->
            \* let n = 7;
            <<"let", "n", "=", "7", ";">>
       [] name = "badTarget" ->
            \* print(1); 1 = 2;
            <<"print", "(", "1", ")", ";", "1", "=", "2", ";">>
       [] name = "badTargetCall" ->
            \* print(1) = 3;
            <<"print", "(", "1", ")", "=", "3", ";">>
       [] name = "badTargetCaught" ->
            \* try { 1 = 2; } catch (e) { print("caught"); }
            <<"try", "{", "1", "=", "2", ";", "}", "catch", "(", "e", ")", "{", "print", "(",
              "\"caught\"", ")", ";", "}">>
       [] name = "importNamed" ->
            \* import m from './b.aur'; print(m.x);
            <<"import", "m", "from", "'./b.aur'", ";", "print", "(", "m", ".", "x", ")", ";">>
       [] name = "importPlain" ->
            \* import './b.aur';
            <<"import", "'./b.aur'", ";">>
       [] name = "powRight" ->
            \* print(2 ** 3 ** 2);
            <<"print", "(", "2", "**", "3", "**", "2", ")", ";">>
       [] name = "subLeft" ->
            \* print(7 - 2 - 1);
            <<"print", "(", "7", "-", "2", "-", "1", ")", ";">>
       [] name = "scenario1" ->
            \* print(1 + 2 * 3 ** 2);
            <<"print", "(", "1", "+", "2", "*", "3", "**", "2", ")", ";">>
       [] name = "eqEmpty" ->
            \* print([] == {});
            <<"print", "(", "[", "]", "==", "{", "}", ")", ";">>
       [] name = "eqIndexed" ->
            \* print([1] == {'0': 1});
            <<"print", "(", "[", "1", "]", "==", "{", "'0'", ":", "1", "}", ")", ";">>
       [] name = "eqNumStr" ->
            \* print(0 == '', 1 == 'a');
            <<"print", "(", "0", "==", "''", ",", "1", "==", "'a'", ")", ";">>
       [] name = "eqNaN" ->
            \* { let a = [0 / 0]; print(a == a); }
            <<"{", "let", "a", "=", "[", "0", "/", "0", "]", ";", "print", "(", "a", "==", "a",
              ")", ";", "}">>
       [] name = "eqUndef" ->
            \* { let o = {}; let a = {x: 1, y: o.m}; let b = {y: o.m, k: o.m}; print(a == b, b == a); }
            <<"{", "let", "o", "=", "{", "}", ";", "let", "a", "=", "{", "x", ":", "1", ",", "y",
              ":", "o", ".", "m", "}", ";", "let", "b", "=", "{", "y", ":", "o", ".", "m", ",",
              "k", ":", "o", ".", "m", "}", ";", "print", "(", "a", "==", "b", ",", "b", "==",
              "a", ")", ";", "}">>
       [] name = "thisTop" ->
            \* print(this);
            <<"print", "(", "this", ")", ";">>
       [] name = "thisPlain" ->
            \* { fun f(){ return this; } print(f()); }
            <<"{", "fun", "f", "(", ")", "{", "return", "this", ";", "}", "print", "(", "f", "(",
              ")", ")", ";", "}">>
       [] name = "thisMethod" ->
            \* { class C { get(){ return this.x; } } let c = new C; c.x = 5; print(c.get()); }
            <<"{", "class", "C", "{", "get", "(", ")", "{", "return", "this", ".", "x", ";", "}",
              "}", "let", "c", "=", "new", "C", ";", "c", ".", "x", "=", "5", ";", "print", "(",
              "c", ".", "get", "(", ")", ")", ";", "}">>
       [] name = "thisClosure" ->
            \* { class C { mk(){ return fun(){ return this.x; }; } } let c = new C; c.x = 5;
            \*   let f = c.mk(); print(f()); }
            <<"{", "class", "C", "{", "mk", "(", ")", "{", "return", "fun", "(", ")", "{",
              "return", "this", ".", "x", ";", "}", ";", "}", "}", "let", "c", "=", "new", "C",
              ";", "c", ".", "x", "=", "5", ";", "let", "f", "=", "c", ".", "mk", "(", ")", ";",
              "print", "(", "f", "(", ")", ")", ";", "}">>
       [] name = "thisDetached" ->
            \* { class C { get(){ return this.x; } } let c = new C; c.x = 5; let g = c.get;
            \*   print(g()); }
            <<"{", "class", "C", "{", "get", "(", ")", "{", "return", "this", ".", "x", ";", "}",
              "}", "let", "c", "=", "new", "C", ";", "c", ".", "x", "=", "5", ";", "let", "g",
              "=", "c", ".", "get", ";", "print", "(", "g", "(", ")", ")", ";", "}">>
       [] name = "thisStored" ->
            \* { class C { get(){ return this.x; } } let c = new C; c.x = 5; let o = {x: 9};
            \*   o.m = c.get; print(o.m()); }
            <<"{", "class", "C", "{", "get", "(", ")", "{", "return", "this", ".", "x", ";", "}",
              "}", "let", "c", "=", "new", "C", ";", "c", ".", "x", "=", "5", ";", "let", "o",
              "=", "{", "x", ":", "9", "}", ";", "o", ".", "m", "=", "c", ".", "get", ";",
              "print", "(", "o", ".", "m", "(", ")", ")", ";", "}">>
       [] name = "thisSwapped" ->
            \* { class C { get(){ return this.x; } } let c = new C; c.x = 5; let o = new C;
            \*   o.x = 9; o.get = c.get; print(o.get()); }
            <<"{", "class", "C", "{", "get", "(", ")", "{", "return", "this", ".", "x", ";", "}",
              "}", "let", "c", "=", "new", "C", ";", "c", ".", "x", "=", "5", ";", "let", "o",
              "=", "new", "C", ";", "o", ".", "x", "=", "9", ";", "o", ".", "get", "=", "c",
              ".", "get", ";", "print", "(", "o", ".", "get", "(", ")", ")", ";", "}">>
       [] name = "topReturnCaught" ->
            \* try { return 1; } catch (e) { print(e.message, e); }
            <<"try", "{", "return", "1", ";", "}", "catch", "(", "e", ")", "{", "print", "(", "e",
              ".", "message", ",", "e", ")", ";", "}">>
       [] name = "logicCalls" ->
            \* { fun g(){ print(7); return 1; } fun f(){ print(9); return null; }
            \*   print(g() || f()); print(f() || g()); print(f() && g()); print(g() && f()); }
            <<"{", "fun", "g", "(", ")", "{", "print", "(", "7", ")", ";", "return", "1", ";", "}",
              "fun", "f", "(", ")", "{", "print", "(", "9", ")", ";", "return", "null", ";", "}",
              "print", "(", "g", "(", ")", "||", "f", "(", ")", ")", ";",
              "print", "(", "f", "(", ")", "||", "g", "(", ")", ")", ";",
              "print", "(", "f", "(", ")", "&&", "g", "(", ")", ")", ";",
              "print", "(", "g", "(", ")", "&&", "f", "(", ")", ")", ";", "}">>]

\* a session draws its REPL buffers and its files from one family
suites ==
  [name \in {"classes", "control", "throws", "truthiness", "modules", "scopes", "closures",
              "targets", "imports", "operators", "equality",
               "receivers", "shortCircuit", "functions",
               "failures", "parameters", "globals"} |->
     CASE name = "classes" ->
            [buffers |-> {"declP", "declD", "newArgs", "newBare", "newEmpty", "callP", "useNew",
                          "scenario3"},
             files |-> {"/w/b.aur"}]
       [] name = "control" ->
            [buffers |-> {"retTry", "retTryBind", "retLoop", "tryQuiet", "whileBreak",
                          "forContinue", "forCount", "topReturn", "topReturnCaught"},
             files |-> {"/w/ret.aur", "/w/top.aur"}]
       [] name = "throws" ->
            [buffers |-> {"throwNum", "throwStr", "throwNull", "throwBool", "throwArr", "throwRec",
                          "scenario4", "rethrow", "uncaught"},
             files |-> {}]
       [] name = "truthiness" ->
            [buffers |-> {"ifFalsy", "ifTruthy", "notOps", "logicOps", "loopsFalsy", "whileArray"},
             files |-> {}]
       [] name = "modules" ->
            [buffers |-> {"reqA", "reqB", "reqBad", "reqCyc", "reqMissing", "reqRet", "tryBad",
                          "shared", "reqPing"},
             files |-> {"/w/main.aur", "/w/twice.aur"}]
       [] name = "scopes" ->
            [buffers |-> {"constC", "letX", "setC", "setX", "shadowLet", "shadowConst",
                          "nestedSetC", "nestedSetX", "twice", "setUndef", "letPrint"},
             files |-> {}]
       [] name = "closures" ->
            [buffers |-> {"scenario2", "counters", "callSite", "captured", "globalN"},
             files |-> {}]
       [] name = "targets" ->
            [buffers |-> {"badTarget", "badTargetCall", "badTargetCaught"},
             files |-> {}]
       [] name = "imports" ->
            [buffers |-> {"importNamed", "importPlain", "reqB"},
             files |-> {}]
       [] name = "operators" ->
            [buffers |-> {"powRight", "subLeft", "scenario1"},
             files |-> {}]
       [] name = "equality" ->
            [buffers |-> {"eqEmpty", "eqIndexed", "eqNumStr", "eqNaN", "eqUndef"},
             files |-> {}]
       [] name = "receivers" ->
            [buffers |-> {"thisTop", "thisPlain", "thisMethod", "thisClosure", "thisDetached",
                          "thisStored", "thisSwapped"},
             files |-> {}]
       [] name = "shortCircuit" ->
            [buffers |-> {"logicCalls", "logicOps"},
             files |-> {}]
       [] name = "functions" ->
            [buffers |-> {"funDecl", "funExprAnon", "funExprNamed", "funExprSelf"},
             files |-> {}]
       [] name = "failures" ->
            [buffers |-> {"reqB", "reqBad", "reqHalf", "reqSyn", "reqLex", "reqMissing", "reqRet",
                          "tryBad"},
             files |-> {}]
       [] name = "parameters" ->
            [buffers |-> {"paramLet", "paramConst", "paramFun", "paramTwice", "paramBlock"},
             files |-> {}]
       [] name = "globals" ->
            [buffers |-> {"letPrint", "constLen", "funRequire", "classPrint", "setPrint", "declN",
                          "reqShadow"},
             files |-> {}]]

(***************************************************************************)
(* The process: new Interpreter(), then the handlers.                      *)
(***************************************************************************)
\* the interpreter as the evaluator threads it; depth counts the nested JS calls
State == [envs |-> envs, heap |-> heap, moduleCache |-> moduleCache, ghost |-> ghost,
          out |-> <<>>, log |-> <<>>, depth |-> 0]

\* process.env: an object of strings
processEnv == [k |-> "record", keys |-> <<"HOME">>, vals |-> ("HOME" :> Str("/root"))]

\* new Interpreter(): this.global = new Env(); this.moduleCache = new Map(); this.setupBuiltins()
builtinOrder ==
  <<"print", "len", "type", "clock", "range", "keys", "values", "push", "pop", "join",
    "fs_read", "fs_write", "fs_exists", "cwd", "homedir", "env", "httpGet", "exec",
    "require", "requireNpm", "import">>

\* the interpreter as it would be if setupBuiltins registered the builtins as constants
Interpreter_newConstBuiltins ==
  [envs |-> <<[map |-> [n \in builtinNames |-> IF n = "env" THEN Ref(1) ELSE Builtin(n)],
               names |-> builtinOrder, consts |-> builtinNames, parent |-> 0]>>,
   heap |-> <<processEnv>>,
   moduleCache |-> <<>>,
   ghost |-> [evals |-> [p \in DOMAIN files |-> 0], createdIn |-> <<>>]]

Interpreter_new ==
  [envs |-> <<[map |-> [n \in builtinNames |-> IF n = "env" THEN Ref(1) ELSE Builtin(n)],
               names |-> builtinOrder, consts |-> {}, parent |-> 0]>>,
   heap |-> <<processEnv>>,
   moduleCache |-> <<>>,
   ghost |-> [evals |-> [p \in DOMAIN files |-> 0], createdIn |-> <<>>]]

\* an interpreter a process has already run a source in
UsedInterpreter == State

\* runFile's const interp = new Interpreter() in a process that has just started
NewProcess ==
  [envs |-> Interpreter_new.envs, heap |-> Interpreter_new.heap,
   moduleCache |-> Interpreter_new.moduleCache, ghost |-> Interpreter_new.ghost,
   out |-> <<>>, log |-> <<>>, depth |-> 0]

\* function showError(e): the first line of what it writes
showError(e) ==
  IF e.t = "error" /\ e.cls = "SyntaxError" /\ e # lexError THEN <<"Error: " \o e.message>>
  ELSE IF e.t = "error" /\ e.isRuntime THEN <<e.message>>
  ELSE IF e.t = "error" THEN <<e.cls \o ": " \o e.message>>
  ELSE <<"[object Object]">>

Init ==
  /\ suite \in DOMAIN suites
  /\ envs = Interpreter_new.envs
  /\ heap = Interpreter_new.heap
  /\ moduleCache = Interpreter_new.moduleCache
  /\ ghost = Interpreter_new.ghost
  /\ out = <<>>
  /\ err = <<>>
  /\ exitCode = 0
  /\ log = <<>>
  /\ last = [op |-> "none", src |-> "", k |-> "none", v |-> Undefined]
  /\ runs = 0

\* What a handler leaves behind, r being how run(source, interp) ended.  echoes: the
\* handler prints repr(result) when the result is not undefined; exits: it ends the
\* process with status 1 on an error (process.exit(1))
Handled(op, src, r, echoes, exits) ==
  /\ envs' = r.st.envs
  /\ heap' = r.st.heap
  /\ moduleCache' = r.st.moduleCache
  /\ ghost' = r.st.ghost
  /\ out' = r.st.out \o (IF echoes /\ r.k = "ok" /\ r.v # Undefined
                         THEN <<repr(r.st, r.v, Fuel(r.st))>> ELSE <<>>)
  /\ err' = IF r.k = "throw" THEN showError(r.v) ELSE <<>>
  /\ exitCode' = IF exits /\ r.k = "throw" THEN 1 ELSE exitCode
  /\ log' = r.st.log
  /\ last' = [op |-> op, src |-> src, k |-> r.k, v |-> r.v]
  /\ runs' = IF r.k \in {"hang", "unmodelled"} THEN MaxRuns ELSE runs + 1
  /\ UNCHANGED suite

\* rl.on('line') for the line ;; : try { result = run(buffer, interp);
\* if (result !== undefined) console.log(repr(result)); } catch (e) { showError(e); }
ReplExecute(name) ==
  /\ runs < MaxRuns
  /\ last.op # "runFile"
  /\ Handled("execute", name, run(buffers[name], State), TRUE, FALSE)

\* rl.on('line') for .load <file>: try { run(src, interp, f); } catch (e) { showError(e); }
ReplLoad(path) ==
  /\ runs < MaxRuns
  /\ last.op # "runFile"
  /\ Handled("load", path, run(files[path], State), FALSE, FALSE)

\* function runFile(pathArg), the whole process when a file is named on the command line
RunFile(path) ==
  /\ runs = 0
  /\ Handled("runFile", path, run(files[path], State), FALSE, TRUE)

\* What a process that ran a file leaves behind, r being how run(src, interp, pathArg)
\* ended in runFile: its output, its error output and its exit status
Exited(path, r) ==
  /\ envs' = r.st.envs
  /\ heap' = r.st.heap
  /\ moduleCache' = r.st.moduleCache
  /\ ghost' = r.st.ghost
  /\ out' = r.st.out
  /\ err' = IF r.k = "throw" THEN showError(r.v) ELSE <<>>
  /\ exitCode' = IF r.k = "throw" THEN 1 ELSE 0
  /\ log' = r.st.log
  /\ last' = [op |-> "runFile", src |-> path, k |-> r.k, v |-> r.v]
  /\ runs' = IF r.k \in {"hang", "unmodelled"} THEN MaxRuns ELSE runs + 1
  /\ UNCHANGED suite

\* the same file named on the command line of a second process: main calls runFile,
\* which interprets the file in an interpreter of its own; the variables then hold what
\* the second process wrote
RunFileAgain(path) ==
  /\ runs < MaxRuns
  /\ last.op = "runFile" /\ last.src = path
  /\ Exited(path, run(files[path], NewProcess))

Next ==
  \/ \E name \in suites[suite].buffers : ReplExecute(name)
  \/ \E path \in suites[suite].files : ReplLoad(path)
  \/ \E path \in suites[suite].files : RunFile(path)
  \/ \E path \in suites[suite].files : RunFileAgain(path)

Spec == Init /\ [][Next]_vars

(***************************************************************************)
(* function eq on its own.  The process has built the containers of        *)
(* eqHeap; one step evaluates `==` on operands a, b and c drawn from the   *)
(* values it then holds, in the five orders the laws of an equivalence     *)
(* speak of.                                                               *)
(***************************************************************************)
\* the heap after [], {}, [1], {'0': 1}, [1], [[1]], [0 / 0], {x: 1, y: o.m} and
\* {y: o.m, k: o.m} have been evaluated, o.m being a property o does not have (the
\* buffers of the suite equality build the same containers)
eqHeap ==
  <<processEnv,
    [k |-> "array", elems |-> <<>>],
    [k |-> "record", keys |-> <<>>, vals |-> <<>>],
    [k |-> "array", elems |-> <<Num(1)>>],
    [k |-> "record", keys |-> <<"0">>, vals |-> ("0" :> Num(1))],
    [k |-> "array", elems |-> <<Num(1)>>],
    [k |-> "array", elems |-> <<Ref(4)>>],
    [k |-> "array", elems |-> <<NaN>>],
    [k |-> "record", keys |-> <<"x", "y">>, vals |-> ("x" :> Num(1)) @@ ("y" :> Undefined)],
    [k |-> "record", keys |-> <<"y", "k">>, vals |-> ("y" :> Undefined) @@ ("k" :> Undefined)]>>

\* the operands: null, true, 0, 1, "", 0/0 and a reference to each container
eqValues ==
  {Null, Bool(TRUE), Num(0), Num(1), Str(""), NaN} \cup {Ref(r) : r \in (DOMAIN eqHeap) \ {1}}

InitEq ==
  /\ suite = "eq"
  /\ envs = Interpreter_new.envs
  /\ heap = eqHeap
  /\ moduleCache = Interpreter_new.moduleCache
  /\ ghost = Interpreter_new.ghost
  /\ out = <<>>
  /\ err = <<>>
  /\ exitCode = 0
  /\ log = <<>>
  /\ \E a \in eqValues : \E b \in eqValues : \E c \in eqValues :
       last = [op |-> "eq", src |-> "", k |-> "none", v |-> Undefined, a |-> a, b |-> b, c |-> c]
  /\ runs = 0

\* case '==': return eq(l,r); for one pair of operands, traced with its result
Compared(l, r) == [e |-> "eq", l |-> l, r |-> r, result |-> eq(State, l, r, {})]

\* a == a, a == b, b == a, b == c and a == c are evaluated
Compare ==
  /\ last.op = "eq"
  /\ last.k = "none"
  /\ log' = <<Compared(last.a, last.a), Compared(last.a, last.b), Compared(last.b, last.a),
              Compared(last.b, last.c), Compared(last.a, last.c)>>
  /\ last' = [last EXCEPT !.k = "ok"]
  /\ runs' = runs + 1
  /\ UNCHANGED <<suite, envs, heap, moduleCache, ghost, out, err, exitCode>>

\* len(a), push(a, v), len(a) and a[len(a) - 1] called in turn on the first two chosen
\* values, as the builtins and eval's Index case compute them
Pushed(a, v) ==
  LET n0 == builtinCall(State, "len", <<a>>)
      p  == builtinCall(State, "push", <<a, v>>)
      n1 == builtinCall(p.st, "len", <<a>>)
  IN [e |-> "push", a |-> a, v |-> v, before |-> n0.v, result |-> p.v, after |-> n1.v,
      lastElem |-> jsGet(p.st, a, jsString(p.st, Num(n1.v.n - 1), Fuel(p.st))),
      heap |-> p.st.heap]

Push ==
  /\ last.op = "eq" /\ last.k = "none" /\ isArray(State, last.a)
  /\ log' = <<Pushed(last.a, last.b)>>
  /\ heap' = log'[1].heap
  /\ last' = [last EXCEPT !.op = "push", !.k = "ok"]
  /\ runs' = runs + 1
  /\ UNCHANGED <<suite, envs, moduleCache, ghost, out, err, exitCode>>

NextEq == Compare \/ Push

SpecEq == InitEq /\ [][NextEq]_vars


(***************************************************************************)
(* Properties of the interpreter, stated over the last handler's trace     *)
(* (log), what it wrote (out) and the state it left.                       *)
(***************************************************************************)

\* C1: `new C(args)` for a class C constructs one instance, invokes the constructor slot
\* once with args and yields the instance instead of raising an error: once class P is
\* declared, the buffers `new P(42)` and `new P()` end normally, their value is an instance
\* of P, and that instance is the only one the expression constructed.
C1_NewYieldsInstance ==
  (/\ last.op = "execute"
   /\ last.src \in {"newArgs", "newEmpty"}
   /\ "P" \in DOMAIN envs[1].map
   /\ isKind(State, envs[1].map["P"], "AuroraClass"))
  => /\ last.k = "ok"
     /\ isKind(State, last.v, "record")
     /\ LET made == {j \in 1..Len(log) : log[j].e = "construct"}
        IN /\ Cardinality(made) = 1
           /\ \A j \in made : /\ last.v = Ref(log[j].inst)
                              /\ log[j].cls = envs[1].map["P"].r

\* C2: a Return signal passes through try/catch to the function frame: no catch clause is
\* ever entered with a Return signal as the caught value, and a function that executes
\* `return 1` inside a try block yields 1 (the buffers retTry and retTryBind print 1 first).
C2_ReturnPassesTryCatch ==
  /\ \A j \in 1..Len(log) : log[j].e = "catch" => log[j].bound.t # "ReturnSignal"
  /\ (last.op = "execute" /\ last.src \in {"retTry", "retTryBind"})
     => (last.k = "ok" /\ out # <<>> /\ out[1] = "1")

\* C3: the value a catch clause receives from `throw v` is v itself: a catch entered for
\* the throw executed last before it (no other throw or catch in between) binds exactly
\* the value the throw statement evaluated.
C3_CatchBindsThrownValue ==
  \A i \in 1..Len(log) : \A j \in 1..Len(log) :
    (/\ i < j
     /\ log[i].e = "throw"
     /\ log[j].e = "catch"
     /\ \A m \in (i + 1)..(j - 1) : log[m].e \notin {"throw", "catch"})
    => (log[j].bound.t = log[i].v.t /\ log[j].bound = log[i].v)

\* C4: every condition decided by truthiness (if, while, for, !, &&, ||) counts its value
\* as false exactly when the value is null or false; 0, "", [] and {} count as true.
C4_FalseOnlyForNullAndFalse ==
  \A j \in 1..Len(log) :
    (log[j].e = "test" /\ log[j].v.t # "undefined")
    => (log[j].taken <=> ~(log[j].v.t = "null" \/ (log[j].v.t = "bool" /\ ~log[j].v.b)))

\* C5: in every reachable state of one interpreter the program of each absolute module
\* path has been evaluated at most once, whatever requests were made, nested or failed.
C5_ModuleEvaluatedAtMostOnce ==
  \A p \in DOMAIN ghost.evals : ghost.evals[p] <= 1

\* C6: a require of a path already loaded returns the cached export record itself without
\* evaluating the module again, so state is shared through both references: main.aur
\* (scenario 6), run first in a fresh interpreter, ends normally having printed 1, 2, true.
C6_CachedRequireSharesRecord ==
  /\ \A j \in 1..Len(log) :
       (log[j].e = "require" /\ log[j].cached)
       => /\ log[j].k = "ok"
          /\ log[j].v = moduleCache[resolve[log[j].spec]]
          /\ log[j].evalsAfter = log[j].evalsBefore
  /\ (last.src = "/w/main.aur" /\ runs = 1)
     => (last.k = "ok" /\ out = <<"1", "2", "true">>)

\* C7: an assignment `name = expr` whose nearest defining scope marks name const fails with
\* the runtime error and leaves every binding of every scope as it was; one whose nearest
\* defining scope holds name as let succeeds and changes that scope's binding and nothing
\* else.  (A scope's ancestors were created before it, so the nearest holder of a name is
\* the holder created last.)
C7_ConstRejectsLetUpdates ==
  \A j \in 1..Len(log) :
    log[j].e = "assign" =>
      LET ev == log[j]
          es == ev.before
          chain[e \in 0..Len(es)] == IF e = 0 THEN {} ELSE {e} \cup chain[es[e].parent]
          holders == {e \in chain[ev.env] : ev.name \in DOMAIN es[e].map}
          s == CHOOSE e \in holders : \A t \in holders : t <= e
      IN /\ (holders # {} /\ ev.name \in es[s].consts)
            => /\ ev.k = "throw"
               /\ ev.thrown = runtimeError("Cannot reassign const " \o ev.name)
               /\ ev.after = es
         /\ (holders # {} /\ ev.name \notin es[s].consts)
            => /\ ev.k = "ok"
               /\ ev.after = [es EXCEPT ![s].map[ev.name] = ev.value]

\* a handler that assigned to a let of an enclosing scope and was then refused an
\* assignment, made in a nested scope, to a const of the global scope
C7_Witness ==
  /\ \E j \in 1..Len(log) :
       /\ log[j].e = "assign" /\ log[j].k = "ok"
       /\ log[j].name \notin DOMAIN log[j].before[log[j].env].map
       /\ log[j].after # log[j].before
  /\ \E j \in 1..Len(log) :
       /\ log[j].e = "assign" /\ log[j].k = "throw"
       /\ log[j].env # 1
       /\ log[j].name \in log[j].before[1].consts
       /\ log[j].name \notin DOMAIN log[j].before[log[j].env].map
  /\ last.k = "throw"

\* C8: define fails and leaves every scope unchanged when the name is already bound in the
\* current scope, whatever its const flag; otherwise it succeeds even if an ancestor binds
\* the name, and then get from the current scope returns the new value while every other
\* scope, the ancestor's binding included, is unchanged.
C8_DefineChecksCurrentScopeOnly ==
  \A j \in 1..Len(log) :
    log[j].e = "define" =>
      LET ev == log[j]
          es == ev.before
          got == Env_get([envs |-> ev.after], ev.env, ev.name)
      IN /\ ev.name \in DOMAIN es[ev.env].map
            => /\ ev.k = "throw"
               /\ ev.thrown = runtimeError("Variable already declared: " \o ev.name)
               /\ ev.after = es
         /\ ev.name \notin DOMAIN es[ev.env].map
            => /\ ev.k = "ok"
               /\ got.k = "ok" /\ got.v.t = ev.value.t /\ got.v = ev.value
               /\ Len(ev.after) = Len(es)
               /\ \A e \in 1..Len(es) : e # ev.env => ev.after[e] = es[e]

\* a handler that shadowed a name of an ancestor scope and was then refused a second
\* define of a name of the current scope
C8_Witness ==
  /\ \E j \in 1..Len(log) :
       /\ log[j].e = "define" /\ log[j].k = "ok"
       /\ log[j].env # 1
       /\ log[j].name \in DOMAIN log[j].before[1].map
  /\ \E j \in 1..Len(log) :
       /\ log[j].e = "define" /\ log[j].k = "throw"
       /\ log[j].name \in DOMAIN log[j].before[log[j].env].map
       /\ log[j].name \notin log[j].before[log[j].env].consts

\* C9: a closure resolves free names in the scope active at its construction: the frame of
\* every call hangs off the scope its function was built in, so the calls of one closure
\* share that scope's cells (the counter of scenario 2 prints 1, 2, 3) and closures built
\* by separate calls of the enclosing function do not (two counters print 1, 2, 1, 3).
C9_ClosuresCaptureDefinitionScope ==
  /\ \A j \in 1..Len(log) : log[j].e = "call" => log[j].parent = ghost.createdIn[log[j].fn]
  /\ (last.src = "scenario2" /\ runs = 1)
     => (last.k = "ok" /\ out = <<"1", "2", "3", "null">>)
  /\ last.src = "counters"
     => (last.k = "ok" /\ out = <<"1", "2", "1", "3", "null">>)

\* the two counters have run: two closures built by separate calls of mk, each called from
\* a scope that is not the one it was built in
C9_Witness ==
  /\ last.src = "counters"
  /\ \E i \in 1..Len(log) : \E j \in 1..Len(log) :
       /\ log[i].e = "call" /\ log[j].e = "call"
       /\ log[i].fn # log[j].fn
       /\ log[i].parent # log[j].parent
       /\ log[i].parent # 1 /\ log[j].parent # 1
  /\ \E i \in 1..Len(log) : \E j \in 1..Len(log) :
       /\ i < j
       /\ log[i].e = "call" /\ log[j].e = "call"
       /\ log[i].fn = log[j].fn /\ log[i].frame # log[j].frame

\* C10: break ends exactly the nearest enclosing loop and evaluation continues after it;
\* continue ends only the current iteration: the buffer whileBreak leaves its loop at
\* i = 2 and prints 2, and forContinue prints 0 and 2, skipping 1.
C10_BreakAndContinue ==
  /\ (last.op = "execute" /\ last.src = "whileBreak")
     => (last.k = "ok" /\ out # <<>> /\ out[1] = "2")
  /\ (last.op = "execute" /\ last.src = "forContinue")
     => (last.k = "ok" /\ Len(out) >= 2 /\ SubSeq(out, 1, 2) = <<"0", "2">>)

\* C11: an assignment whose left-hand side is no identifier, property access or index
\* access is rejected when the source unit is parsed: the handler ends with a SyntaxError
\* before any statement of the unit is evaluated (nothing is printed, nothing is traced),
\* so no catch clause of the unit runs.
C11_InvalidTargetIsParseError ==
  (last.op = "execute" /\ last.src \in {"badTarget", "badTargetCall", "badTargetCaught"})
  => /\ last.k = "throw"
     /\ last.v.t = "error" /\ last.v.cls = "SyntaxError"
     /\ out = <<>>
     /\ log = <<>>

\* C12: `import X from "path"` is lexed and parsed, loads the module as require(path)
\* does, and defines X in the current environment as a const holding the export record:
\* the buffer importNamed ends normally with b.aur loaded and the global const m bound to
\* the record the module cache holds for it.
C12_NamedImportBindsConst ==
  (last.op = "execute" /\ last.src = "importNamed")
  => /\ last.k = "ok"
     /\ "/w/b.aur" \in DOMAIN moduleCache
     /\ "m" \in DOMAIN envs[1].map
     /\ "m" \in envs[1].consts
     /\ envs[1].map["m"] = moduleCache["/w/b.aur"]

\* C13: binary operators are left-associative except `**`, which is right-associative:
\* for all operands a, b, c the expression a ** b ** c parses as a ** (b ** c) and
\* a - b - c as (a - b) - c; `2 ** 3 ** 2` prints 512, `7 - 2 - 1` prints 4 and
\* `1 + 2 * 3 ** 2` prints 19.
C13_PowerIsRightAssociative ==
  /\ \A a \in {"2", "3", "x"} : \A b \in {"2", "3", "x"} : \A c \in {"2", "3", "x"} :
       LET tree(src) == parseProgram(lex(src).toks).node.body[1].expression
           binary(op, l, r) == [type |-> "Binary", op |-> op, left |-> l, right |-> r]
       IN /\ tree(<<a, "**", b, "**", c>>)
               = binary("**", tree(<<a>>), binary("**", tree(<<b>>), tree(<<c>>)))
          /\ tree(<<a, "-", b, "-", c>>)
               = binary("-", binary("-", tree(<<a>>), tree(<<b>>)), tree(<<c>>))
  /\ (last.op = "execute" /\ last.src = "powRight") => (last.k = "ok" /\ out = <<"512", "null">>)
  /\ (last.op = "execute" /\ last.src = "subLeft") => (last.k = "ok" /\ out = <<"4", "null">>)
  /\ (last.op = "execute" /\ last.src = "scenario1") => (last.k = "ok" /\ out = <<"19", "null">>)

\* C14: `==` is false whenever exactly one operand is an array (so for [] against {} and
\* for [1] against {"0": 1}) and whenever one operand is a number and the other a string.
C14_ArrayNeverEqualsNonArray ==
  \A j \in 1..Len(log) :
    log[j].e = "eq" =>
      /\ isArray(State, log[j].l) # isArray(State, log[j].r) => log[j].result = "false"
      /\ {typeof(log[j].l), typeof(log[j].r)} = {"number", "string"} => log[j].result = "false"

\* C15: `==` is an equivalence on the values built from scalars, arrays and records:
\* a == a holds, a == b and b == a agree, and a == b with b == c gives a == c.
C15_EqIsEquivalence ==
  (last.op = "eq" /\ last.k = "ok")
  => /\ log[1].result = "true"
     /\ log[2].result = log[3].result
     /\ (log[2].result = "true" /\ log[4].result = "true") => log[5].result = "true"

\* C16: after push(a, v) the length len(a) reports is one more than before and is the
\* value push returned, the last element a[len(a) - 1] is v, the earlier elements are
\* unchanged, and the array is grown in place: no container is created and no other
\* container changes, so every alias of a (the same reference, held in a variable or in
\* another container) reads the grown array
C16_PushAppendsOne ==
  (last.op = "push" /\ last.k = "ok")
  => LET ev == log[1]
         r  == ev.a.r
     IN /\ ev.before = Num(Len(eqHeap[r].elems))
        /\ ev.after = Num(ev.before.n + 1)
        /\ ev.result = ev.after
        /\ ev.lastElem = ev.v
        /\ Len(heap[r].elems) = ev.after.n
        /\ \A j \in 1..Len(eqHeap[r].elems) : heap[r].elems[j] = eqHeap[r].elems[j]
        /\ DOMAIN heap = DOMAIN eqHeap
        /\ \A q \in DOMAIN heap \ {r} : heap[q] = eqHeap[q]
        /\ \A q \in DOMAIN heap : heap[q].k = "array" =>
             \A j \in 1..Len(heap[q].elems) :
                heap[q].elems[j] = ev.a
                => Len(heap[heap[q].elems[j].r].elems) = ev.after.n

\* a value was pushed onto the one-element array [1] that [[1]] also holds
C16_PushedOntoAliased ==
  /\ last.op = "push" /\ last.k = "ok"
  /\ log[1].a = Ref(4) /\ log[1].v = Str("") /\ log[1].before = Num(1)
  /\ heap[4].elems = <<Num(1), Str("")>>
  /\ heap[7].elems = <<Ref(4)>>

RECURSIVE C17_invocationFrame(_)
\* the frame of the invocation the code of scope env runs in: the nearest scope, from env
\* outwards, that a call created; 0 for code at the top level
C17_invocationFrame(env) ==
  IF env = 0 THEN 0
  ELSE IF \E j \in 1..Len(log) : log[j].e = "call" /\ log[j].frame = env THEN env
  ELSE C17_invocationFrame(envs[env].parent)

\* C17: evaluating `this` at the top level, or in the frame of a function that was called
\* without a receiver, raises the undefined-variable error, wherever the function was
\* created; and a method value called through a plain identifier has no `this`
C17_ThisUnboundOutsideMethodFrames ==
  /\ \A j \in 1..Len(log) : log[j].e = "this" =>
       LET fr == C17_invocationFrame(log[j].env)
       IN (fr = 0 \/ \E i \in 1..j : log[i].e = "call" /\ log[i].frame = fr /\ log[i].this = Null)
          => log[j].k = "throw" /\ log[j].v = runtimeError("Undefined variable this")
  /\ (last.op = "execute" /\ last.src = "thisDetached")
     => last.k = "throw" /\ last.v = runtimeError("Undefined variable this") /\ out = <<>>

\* C18: a `return` executed at the top level of a script, of a loaded file or of a module
\* ends the run with a runtime error record, and a try/catch around it receives a
\* runtime error record
C18_TopLevelReturnIsRuntimeError ==
  /\ ((last.op = "execute" /\ last.src \in {"topReturn", "reqRet"})
      \/ (last.op \in {"load", "runFile"} /\ last.src = "/w/top.aur"))
     => last.k = "throw" /\ last.v.t = "error" /\ last.v.isRuntime
  /\ (last.op = "execute" /\ last.src = "topReturnCaught")
     => /\ \E j \in 1..Len(log) : log[j].e = "catch"
        /\ \A j \in 1..Len(log) : log[j].e = "catch"
             => log[j].bound.t = "error" /\ log[j].bound.isRuntime

C21_NoSecondEvaluationInProgress ==
  /\ \A i \in 1..Len(log) : log[i].e = "moduleEval" =>
       LET p == log[i].path
           started == {j \in 1..(i - 1) : log[j].e = "moduleEval" /\ log[j].path = p}
           ended == {j \in 1..(i - 1) : /\ log[j].e = "require"
                                        /\ log[j].spec \in DOMAIN resolve
                                        /\ resolve[log[j].spec] = p
                                        /\ log[j].evalsAfter[p] > log[j].evalsBefore[p]}
       IN Cardinality(started) = Cardinality(ended)
  /\ (last.op = "execute" /\ last.src \in {"reqCyc", "reqPing"} /\ runs = 1)
     => /\ last.k = "ok"
        /\ \A p \in DOMAIN ghost.evals : ghost.evals[p] <= 1
        /\ ("/w/cyc.aur" \in DOMAIN moduleCache) = (last.src = "reqCyc")
        /\ ("/w/ping.aur" \in DOMAIN moduleCache) = (last.src = "reqPing")

\* C22: a function declaration leaves its name in the current environment as a const
\* binding of the closure; a function expression, named or not, leaves the current
\* environment as it was, so that its name is neither visible nor in the way afterwards
C22_FunctionExprBindsNothing ==
  /\ \A j \in 1..Len(log) : log[j].e = "function" =>
       /\ log[j].type = "FunctionDecl"
          => /\ log[j].name \in DOMAIN log[j].after.map
             /\ log[j].after.map[log[j].name] = log[j].fn
             /\ log[j].name \in log[j].after.consts
       /\ log[j].type = "FunctionExpr" => log[j].after = log[j].before
  /\ (last.op = "execute" /\ last.src = "funExprNamed")
     => last.k = "throw" /\ last.v = runtimeError("Undefined variable g") /\ out = <<>>
  /\ (last.op = "execute" /\ last.src = "funExprSelf")
     => last.k = "ok" /\ out = <<"1", "null">>

\* C23: a require that fails raises a runtime error and leaves no entry for its path in
\* the module cache, whether the file could not be read, lexed, parsed or evaluated;
\* the entries the cache had are kept as they were; an entry appears only through a
\* require of that path whose evaluation ended normally; and a later require of a
\* module whose evaluation failed evaluates it once more
C23_FailedLoadIsNotCached ==
  [][/\ \A j \in 1..Len(log') :
          (log'[j].e = "require" /\ log'[j].spec \in DOMAIN resolve) =>
            LET ev == log'[j]
                path == resolve[ev.spec]
            IN /\ ev.k = "throw"
                  => /\ ev.v.t = "error" /\ ev.v.isRuntime
                     /\ path \notin DOMAIN ev.cacheBefore
                     /\ path \notin DOMAIN ev.cacheAfter
                     /\ \A q \in DOMAIN ev.cacheBefore :
                          q \in DOMAIN ev.cacheAfter /\ ev.cacheAfter[q] = ev.cacheBefore[q]
               /\ \A q \in DOMAIN ev.cacheAfter \ DOMAIN ev.cacheBefore :
                    \E h \in 1..j : /\ log'[h].e = "require" /\ log'[h].spec \in DOMAIN resolve
                                    /\ resolve[log'[h].spec] = q
                                    /\ log'[h].k = "ok" /\ ~log'[h].cached
                                    /\ log'[h].evalsAfter[q] > log'[h].evalsBefore[q]
     /\ (last'.op = "execute" /\ last'.src \in {"reqBad", "reqHalf", "reqRet"})
        => LET path == CASE last'.src = "reqBad" -> "/w/bad.aur"
                         [] last'.src = "reqHalf" -> "/w/half.aur"
                         [] last'.src = "reqRet" -> "/w/ret.aur"
           IN /\ last'.k = "throw" /\ last'.v.t = "error" /\ last'.v.isRuntime
              /\ path \notin DOMAIN moduleCache'
              /\ ghost'.evals[path] = ghost.evals[path] + 1]_vars

\* /w/bad.aur has been required twice in one interpreter: it was evaluated both times,
\* both requires failed, and the cache has no entry for it
C23_FailedTwice ==
  /\ last.op = "execute" /\ last.src = "reqBad" /\ runs = 2
  /\ last.k = "throw" /\ last.v.isRuntime
  /\ ghost.evals["/w/bad.aur"] = 2
  /\ "/w/bad.aur" \notin DOMAIN moduleCache

\* C23 with "the cache is left unchanged" taken of the whole cache: a require that fails
\* leaves the module cache exactly as it found it
C23_FailedLoadLeavesCacheUnchanged ==
  \A j \in 1..Len(log) :
    (log[j].e = "require" /\ log[j].k = "throw") => log[j].cacheAfter = log[j].cacheBefore

\* C24: a call of a function whose body declares, at its top level, a let, a const or a
\* fun named like a parameter, or whose parameter list names x twice, fails when it is
\* called, not when it is declared, with the already-declared error raised by a define
\* in the frame that holds the parameters; the same let inside a nested block of the
\* body is defined in a scope under that frame and leaves the parameter as it was
C24_BodySharesParameterScope ==
  /\ (last.op = "execute" /\ last.src \in {"paramLet", "paramConst", "paramFun", "paramTwice"})
     => /\ last.k = "throw" /\ last.v = runtimeError("Variable already declared: x")
        /\ out = <<"7">>
        /\ \E i \in 1..Len(log) : \E j \in (i + 1)..Len(log) :
             /\ log[i].e = "call" /\ log[j].e = "define"
             /\ log[j].env = log[i].frame /\ log[j].name = "x"
             /\ "x" \in DOMAIN log[j].before[log[i].frame].map
             /\ log[j].k = "throw" /\ log[j].after = log[j].before
  /\ (last.op = "execute" /\ last.src = "paramBlock")
     => /\ last.k = "ok" /\ out = <<"7", "2", "1", "null">>
        /\ \E i \in 1..Len(log) : \E j \in (i + 1)..Len(log) :
             /\ log[i].e = "call" /\ log[j].e = "define"
             /\ log[j].env # log[i].frame
             /\ log[j].before[log[j].env].parent = log[i].frame
             /\ log[j].name = "x" /\ log[j].k = "ok"
             /\ log[j].after[log[i].frame].map["x"] = Num(1)
             /\ log[j].after[log[j].env].map["x"] = Num(2)

\* f(1) was called with a body whose first statement is let x = 2: the define of x in
\* the frame of the call failed
C24_LetOfParameterFailed ==
  /\ last.op = "execute" /\ last.src = "paramLet" /\ last.k = "throw"
  /\ \E i \in 1..Len(log) : \E j \in (i + 1)..Len(log) :
       /\ log[i].e = "call" /\ log[j].e = "define" /\ log[j].env = log[i].frame
       /\ log[j].name = "x" /\ log[j].value = Num(2) /\ log[j].k = "throw"

\* C25: the statements of a script's top level define in the root environment, the one
\* that holds the builtins, and what they define stays there for the later buffers of
\* the interpreter; the builtins are registered non-const, so a top-level let, const,
\* fun or class named like a builtin raises "Variable already declared" and changes
\* nothing, while a top-level assignment to a builtin name replaces the builtin; the
\* same declarations at the top level of a required module are made in the module's
\* scope, whose parent is the root, and leave the root as it was
C25_TopLevelDeclaresInRoot ==
  [][/\ last'.op \in {"execute", "load"}
        => /\ \A n \in DOMAIN envs[1].map : n \in DOMAIN envs'[1].map
           /\ builtinNames \subseteq DOMAIN envs'[1].map
           /\ envs'[1].consts \cap builtinNames = {}
     /\ \A j \in 1..Len(log') :
          (log'[j].e = "define" /\ log'[j].name \in builtinNames) =>
            LET ev == log'[j]
            IN IF ev.env = 1
               THEN /\ ev.k = "throw"
                    /\ ev.thrown = runtimeError("Variable already declared: " \o ev.name)
                    /\ ev.after = ev.before
               ELSE ev.name \notin DOMAIN ev.before[ev.env].map
                    => /\ ev.k = "ok"
                       /\ ev.after[ev.env].map[ev.name] = ev.value
                       /\ ev.after[1] = ev.before[1]
     /\ (last'.op = "execute"
         /\ last'.src \in {"letPrint", "constLen", "funRequire", "classPrint"})
        => LET name == CASE last'.src = "constLen" -> "len"
                         [] last'.src = "funRequire" -> "require"
                         [] OTHER -> "print"
           IN /\ last'.k = "throw"
              /\ last'.v = runtimeError("Variable already declared: " \o name)
              /\ envs'[1] = envs[1]
     /\ (last'.op = "execute" /\ last'.src = "setPrint")
        => /\ last'.k = "ok" /\ last'.v = Num(1)
           /\ envs'[1].map["print"] = Num(1)
     /\ (last'.op = "execute" /\ last'.src = "declN")
        => IF "n" \in DOMAIN envs[1].map
           THEN /\ last'.k = "throw"
                /\ last'.v = runtimeError("Variable already declared: n")
                /\ envs'[1] = envs[1]
           ELSE /\ last'.k = "ok"
                /\ envs'[1].map = ("n" :> Num(5)) @@ envs[1].map
     /\ (last'.op = "execute" /\ last'.src = "reqShadow"
         /\ envs[1].map["print"] = Builtin("print"))
        => /\ last'.k = "ok" /\ out' = <<"3", "null">>
           /\ envs'[1] = envs[1]
           /\ \E m \in 2..Len(envs') :
                /\ envs'[m].parent = 1
                /\ envs'[m].map["print"] = Num(1)]_vars

\* print was assigned at the top level of one buffer, and in the next buffer of the same
\* interpreter a top-level const named len failed while print still held the number
C25_BuiltinReplacedThenDeclared ==
  /\ last.op = "execute" /\ last.src = "constLen" /\ runs = 2
  /\ last.k = "throw" /\ last.v = runtimeError("Variable already declared: len")
  /\ envs[1].map["print"] = Num(1)
  /\ envs[1].map["len"] = Builtin("len")

\* C26: every invocation of a method closure runs with `this` bound to the instance
\* whose slot holds it, and `this` evaluated in that frame is that instance: a slot
\* value read into a variable and called by a plain call, stored as a property of an
\* object literal and called as o.m(), or stored over the slot of another instance and
\* called on that instance, reads the field of the instance it was created for
C26_MethodSlotStaysBound ==
  /\ \A j \in 1..Len(log) :
       (log[j].e = "call" /\ heap[log[j].fn].isMethod) =>
         /\ \E w \in DOMAIN heap :
              /\ heap[w].k = "method" /\ heap[w].fn = log[j].fn
              /\ log[j].this = Ref(heap[w].inst)
         /\ \A i \in j..Len(log) :
              (log[i].e = "this" /\ log[i].env = log[j].frame)
              => log[i].k = "ok" /\ log[i].v = log[j].this
  /\ (last.op = "execute" /\ last.src \in {"thisDetached", "thisStored", "thisSwapped"})
     => /\ last.k = "ok" /\ out = <<"5", "null">>
        /\ \E j \in 1..Len(log) : log[j].e = "call" /\ heap[log[j].fn].isMethod

\* a method slot of one instance was stored as property m of another record and called
\* as o.m(): the method ran with the first instance as `this` and printed its field
C26_CalledOnAnotherRecord ==
  /\ last.op = "execute" /\ last.src = "thisStored" /\ out = <<"5", "null">>
  /\ \E j \in 1..Len(log), o \in DOMAIN heap :
       /\ log[j].e = "call" /\ heap[log[j].fn].isMethod
       /\ heap[o].k = "record" /\ Ref(o) # log[j].this
       /\ \E i \in 1..Len(heap[o].keys) : heap[o].keys[i] = "m"
       /\ heap[o].vals["m"].t = "ref"
       /\ heap[heap[o].vals["m"].r].k = "method"
       /\ heap[heap[o].vals["m"].r].fn = log[j].fn

====
